---- MODULE Spec2Model ----
(***************************************************************************)
(* plexapi live TV binding (plexapi/livetv.py): the element mapping of the *)
(* registered livetv kinds and the lazy accessors of LiveTV.               *)
(*                                                                         *)
(* Python values are tagged pairs <<tag, payload>>, so that values of      *)
(* different Python types can be compared: None, str, int, datetime, list, *)
(* dict, a transport response, or a raised exception.                      *)
(***************************************************************************)
EXTENDS Integers, Sequences, FiniteSets, TLC

VARIABLES
    elem,        \* SpecMap: the Element handed to _loadData
    kind,        \* SpecMap: the class whose _loadData is run on elem
    mapped,      \* SpecMap: the outcome of _loadData (NotMapped before it ran)
    constructed, \* whether LiveTV.__init__ has run
    _dvrs,       \* LiveTV._dvrs
    _cloud_key,  \* LiveTV._cloud_key
    _xmltv_key,  \* LiveTV._xmltv_key
    resolved,    \* what the first successful access of dvrs returned
    threads,     \* SpecThreads: the two callers that access one relationship at once
    last,        \* the last operation: name, arguments, pre-state, requests, outcome
    at,          \* the statement the bootstrap tool, or wait_until, is about to run
    now,         \* what time() returns, in whole seconds since start_time was taken
    opts,        \* bootstrap: the parsed command line
    start_time,  \* bootstrap: time() when the current wait began
    server,      \* bootstrap: None, or the connected server
    acceptedEULA, \* bootstrap: the acceptedEULA setting as the server has it saved
    downloaded,  \* bootstrap: whether the media was downloaded and laid out
    expected_media_count, \* bootstrap
    sections,    \* bootstrap: the sections still to create
    first_section, \* bootstrap: sections.pop(0)
    success,     \* bootstrap: whether library.add(first_section) returned
    calls,       \* bootstrap: the calls of library.add so far, each with its outcome
    notifier,    \* bootstrap: whether the alert listener runs
    finished,    \* bootstrap
    processed_media, \* bootstrap
    announced,   \* bootstrap: the media files whose timeline entry reached alert_callback
    album_created, \* bootstrap
    printed,     \* bootstrap: the messages printed so far
    exit_status, \* bootstrap: None while it runs, then how the process ended
    wait         \* wait_until: its arguments, locals and the evaluations made so far

\* the variables of the LiveTV model
livetvVars ==
    <<elem, kind, mapped, constructed, _dvrs, _cloud_key, _xmltv_key, resolved, threads,
      last>>

\* the variables of tools/plex-bootstraptest.py
bootVars ==
    <<opts, start_time, server, acceptedEULA, downloaded, expected_media_count, sections,
      first_section, success, calls, notifier, finished, processed_media, announced,
      album_created, printed, exit_status>>

\* the variables of the tools, which the operations of the library leave alone
toolVars == <<at, now, bootVars, wait>>

vars == <<livetvVars, toolVars>>

----------------------------------------------------------------------------
(* Bounds of the model *)

\* longest document (number of top-level elements) a fetchItems endpoint returns
MaxDocLen == 2
\* most Directory elements a provider's MediaContainer holds
MaxDirs == 2
\* number of well-formed value variants of an attribute
MaxVariant == 1
\* largest number an attribute string of the model spells
MaxNum == 20 * MaxVariant + 20

----------------------------------------------------------------------------
(* Python values *)

None == <<"None", 0>>
Str(s) == <<"str", s>>
PyInt(n) == <<"int", n>>
Datetime(n, us) == <<"datetime", [epoch |-> n, micro |-> us]>>
List(s) == <<"list", s>>
Dict(f) == <<"dict", f>>
Raise(exc, url, status) == <<"raise", [exc |-> exc, url |-> url, status |-> status]>>

IsRaise(v) == v[1] = "raise"
IsNone(v) == v[1] = "None"

\* Python truth value testing (bool(x)); requests.Response is truthy when ok
Truthy(v) ==
    CASE v[1] = "None" -> FALSE
      [] v[1] = "str" -> Len(v[2]) > 0
      [] v[1] = "int" -> v[2] # 0
      [] v[1] = "list" -> Len(v[2]) > 0
      [] v[1] = "dict" -> DOMAIN v[2] # {}
      [] v[1] = "response" -> v[2].status < 400
      [] OTHER -> TRUE

----------------------------------------------------------------------------
(* int() and toDatetime() read the characters of an attribute string *)

Digits == {"0", "1", "2", "3", "4", "5", "6", "7", "8", "9"}

DigitVal(c) ==
    CASE c = "0" -> 0 [] c = "1" -> 1 [] c = "2" -> 2 [] c = "3" -> 3 [] c = "4" -> 4
      [] c = "5" -> 5 [] c = "6" -> 6 [] c = "7" -> 7 [] c = "8" -> 8 [] c = "9" -> 9

IsDigits(s) == Len(s) > 0 /\ \A i \in 1..Len(s) : s[i] \in Digits

RECURSIVE DigitsToNat(_)
DigitsToNat(s) ==
    IF Len(s) = 0 THEN 0
    ELSE 10 * DigitsToNat(SubSeq(s, 1, Len(s) - 1)) + DigitVal(s[Len(s)])

DigitChar(d) ==
    CASE d = 0 -> "0" [] d = 1 -> "1" [] d = 2 -> "2" [] d = 3 -> "3" [] d = 4 -> "4"
      [] d = 5 -> "5" [] d = 6 -> "6" [] d = 7 -> "7" [] d = 8 -> "8" [] d = 9 -> "9"

RECURSIVE NatToDigits(_)
NatToDigits(n) ==
    IF n < 10 THEN <<DigitChar(n)>>
    ELSE Append(NatToDigits(n \div 10), DigitChar(n % 10))

\* the spelling of a string of the model: a decimal number, a number after
\* the letter x, or (any other string) a word of letters
CharsOf(s) ==
    LET spelt == {n \in 0..MaxNum : s = ToString(n)}
        xspelt == {n \in 0..MaxNum : s = "x" \o ToString(n)}
    IN  IF spelt # {} THEN NatToDigits(CHOOSE n \in spelt : TRUE)
        ELSE IF xspelt # {} THEN <<"x">> \o NatToDigits(CHOOSE n \in xspelt : TRUE)
        ELSE <<"a">>

\* int(s) of a string: <<TRUE, n>>, or <<FALSE, 0>> for a ValueError
ParseInt(chars) == IF IsDigits(chars) THEN <<TRUE, DigitsToNat(chars)>> ELSE <<FALSE, 0>>

IntOrNone(parsed) == IF parsed[1] THEN PyInt(parsed[2]) ELSE None

DatetimeOrNone(parsed) == IF parsed[1] THEN Datetime(parsed[2], 0) ELSE None

\* utils.cast(int, value): None stays None, a malformed value becomes None
cast_int(value) ==
    IF IsNone(value) THEN None ELSE IntOrNone(ParseInt(CharsOf(value[2])))

\* utils.toDatetime(value): None stays None, an epoch string becomes a datetime
toDatetime(value) ==
    IF IsNone(value) THEN None ELSE DatetimeOrNone(ParseInt(CharsOf(value[2])))

\* utils.datetimeToEpoch(date): the epoch second of a datetime, as an integer
datetimeToEpoch(date) == date[2].epoch

----------------------------------------------------------------------------
(* dict: data.attrib of an Element *)

\* dict.get(name, default)
dict_get(attrib, name, default) ==
    IF name \in DOMAIN attrib THEN Str(attrib[name]) ELSE default

\* the methods a dict has; any other attribute access raises AttributeError
DictMethods == {"get", "keys", "values", "items", "pop", "setdefault", "update"}

\* data.attrib.<method>(name, default), as Python evaluates it
attrib_call(attrib, method, name, default) ==
    IF method \notin DictMethods THEN Raise("AttributeError", "", 0)
    ELSE IF method = "get" THEN dict_get(attrib, name, default)
    ELSE Raise("TypeError", "", 0)

coerce(conv, value) ==
    IF IsRaise(value) THEN value
    ELSE CASE conv = "int" -> cast_int(value)
           [] conv = "datetime" -> toDatetime(value)
           [] OTHER -> value

\* one assignment of a _loadData body:
\* self.<field> = <conv>(data.attrib.<method>(<attr>, <default>))
Row(field, method, attr, default, conv) ==
    [field |-> field, method |-> method, attr |-> attr, default |-> default, conv |-> conv]

Get(field, attr) == Row(field, "get", attr, None, "str")

\* the assignments of a _loadData body run in order; the first that raises
\* ends the body with its exception, otherwise the fields are set
FirstRaiseOrFields(rows, val) ==
    LET bad == {i \in 1..Len(rows) : IsRaise(val[i])}
    IN  IF bad # {}
        THEN val[CHOOSE i \in bad : \A j \in bad : i <= j]
        ELSE Dict([f \in {rows[i].field : i \in 1..Len(rows)} |->
                    val[CHOOSE i \in 1..Len(rows) : rows[i].field = f]])

LoadRows(rows, attrib) ==
    FirstRaiseOrFields(rows,
        [i \in 1..Len(rows) |->
            coerce(rows[i].conv,
                   attrib_call(attrib, rows[i].method, rows[i].attr, rows[i].default))])

----------------------------------------------------------------------------
(* The assignments of each kind's _loadData *)

IPTVChannelRows ==
    <<Get("art", "art"), Get("guid", "id"), Get("thumb", "thumb"),
      Get("title", "title"), Get("type", "type")>>

RecordingRows ==
    <<Row("key", "key", "key", None, "str"),
      Row("type", "key", "type", None, "str"),
      Get("targetLibrarySectionId", "targetLibrarySectionId"),
      Row("createdAt", "get", "createdAt", None, "datetime"),
      Get("title", "title")>>

ScheduledRecordingRows ==
    <<Get("mediaSubscriptionID", "mediaSubscriptionID"),
      Get("mediaIndex", "mediaIndex"),
      Row("key", "key", "key", None, "str"),
      Get("grabberIdentifier", "grabberIdentifier"),
      Get("grabberProtocol", "grabberProtocol"),
      Get("deviceID", "deviceID"),
      Get("status", "status"),
      Get("provider", "provider")>>

SettingRows ==
    <<Get("id", "id"), Get("label", "label"), Get("summary", "summary"),
      Get("type", "type"), Get("default", "default"), Get("value", "value"),
      Get("hidden", "hidden"), Get("advanced", "advanced"), Get("group", "group"),
      Get("enumValues", "enumValues")>>

DVRChannelRows ==
    <<Get("channelKey", "channelKey"),
      Get("deviceIdentifier", "deviceIdentifier"),
      Row("enabled", "get", "enabled", None, "int"),
      Get("lineupIdentifier", "lineupIdentifier")>>

DVRDeviceRows ==
    <<Get("parentID", "parentID"),
      Row("key", "get", "key", Str(""), "str"),
      Get("uuid", "uuid"), Get("uri", "uri"), Get("protocol", "protocol"),
      Get("status", "status"), Get("state", "state"),
      Row("lastSeenAt", "get", "lastSeenAt", None, "datetime"),
      Get("make", "make"), Get("model", "model"),
      Get("modelNumber", "modelNumber"), Get("source", "source"),
      Get("sources", "sources"), Get("thumb", "thumb"),
      Row("tuners", "get", "tuners", None, "int")>>

DVRRows ==
    <<Row("key", "get", "key", None, "int"),
      Get("uuid", "uuid"), Get("language", "language"),
      Get("lineupURL", "lineup"), Get("title", "lineupTitle"),
      Get("country", "country"),
      Row("refreshTime", "get", "refreshedAt", None, "datetime"),
      Get("epgIdentifier", "epgIdentifier")>>

----------------------------------------------------------------------------
(* Elements, objects and the registry *)

Element(tag, attrib, children) == [tag |-> tag, attrib |-> attrib, children |-> children]

Obj(cls, tag, fields, items) ==
    <<"obj", [cls |-> cls, tag |-> tag, f |-> fields, items |-> items]>>

\* utils.PLEXOBJECTS after every @utils.registerPlexObject ran: 'TAG.TYPE', or
\* 'TAG' for a class without TYPE, to the class
PLEXOBJECTS ==
    [h \in {"Directory.channel", "MediaSubscription", "MediaGrabOperation", "Setting",
            "ChannelMapping", "Device", "Dvr", "Video.movie", "Video.show", "Hub"} |->
        CASE h = "Directory.channel" -> "IPTVChannel"
          [] h = "MediaSubscription" -> "Recording"
          [] h = "MediaGrabOperation" -> "ScheduledRecording"
          [] h = "Setting" -> "Setting"
          [] h = "ChannelMapping" -> "DVRChannel"
          [] h = "Device" -> "DVRDevice"
          [] h = "Dvr" -> "DVR"
          [] h = "Video.movie" -> "Movie"
          [] h = "Video.show" -> "Show"
          [] h = "Hub" -> "Hub"]

\* a lookup that knows the tag alone, which C11 rejects
lookup_TagOnly(tag, etype) ==
    IF tag \in DOMAIN PLEXOBJECTS THEN Str(PLEXOBJECTS[tag])
    ELSE Raise("UnknownType", "", 0)

\* lookup(tag, typeAttribute): the exact pair, then the tag alone, else UnknownType
lookup(tag, etype) ==
    IF Truthy(etype) /\ (tag \o "." \o etype[2]) \in DOMAIN PLEXOBJECTS
    THEN Str(PLEXOBJECTS[tag \o "." \o etype[2]])
    ELSE IF tag \in DOMAIN PLEXOBJECTS THEN Str(PLEXOBJECTS[tag])
    ELSE Raise("UnknownType", "", 0)

\* the end of a _loadData body: self.items = self.findItems(data), reached
\* when no assignment raised; items is findItems(data)
FinishLoad(cls, data, r, items) ==
    IF IsRaise(r) THEN r ELSE Obj(cls, data.tag, r[2], items)

IPTVChannel_loadData(data, items) ==
    FinishLoad("IPTVChannel", data, LoadRows(IPTVChannelRows, data.attrib), items)

Recording_loadData(data, items) ==
    FinishLoad("Recording", data, LoadRows(RecordingRows, data.attrib), items)

ScheduledRecording_loadData(data, items) ==
    FinishLoad("ScheduledRecording", data,
               LoadRows(ScheduledRecordingRows, data.attrib), items)

Setting_loadData(data, items) ==
    FinishLoad("Setting", data, LoadRows(SettingRows, data.attrib), items)

DVRChannel_loadData(data, items) ==
    FinishLoad("DVRChannel", data, LoadRows(DVRChannelRows, data.attrib), items)

DVRDevice_loadData(data, items) ==
    FinishLoad("DVRDevice", data, LoadRows(DVRDeviceRows, data.attrib), items)

DVR_loadData(data, items) ==
    FinishLoad("DVR", data, LoadRows(DVRRows, data.attrib), items)

\* a kind registered by another module of plexapi, or the generic object of an
\* unregistered kind: every attribute is kept as it is
Generic_loadData(cls, data, items) ==
    Obj(cls, data.tag, [a \in DOMAIN data.attrib |-> Str(data.attrib[a])], items)

LivetvKinds ==
    {"IPTVChannel", "Recording", "ScheduledRecording", "Setting", "DVRChannel",
     "DVRDevice", "DVR"}

\* cls(server, data)._loadData(data)
loadData(cls, data, items) ==
    CASE cls = "IPTVChannel" -> IPTVChannel_loadData(data, items)
      [] cls = "Recording" -> Recording_loadData(data, items)
      [] cls = "ScheduledRecording" -> ScheduledRecording_loadData(data, items)
      [] cls = "Setting" -> Setting_loadData(data, items)
      [] cls = "DVRChannel" -> DVRChannel_loadData(data, items)
      [] cls = "DVRDevice" -> DVRDevice_loadData(data, items)
      [] cls = "DVR" -> DVR_loadData(data, items)
      [] OTHER -> Generic_loadData(cls, data, items)

\* the class the registry gives an element, the generic PlexObject when its
\* type is unknown
ClassOf(found) == IF IsRaise(found) THEN "PlexObject" ELSE found[2]

RECURSIVE findItems(_)

\* a mapElement that fails on an unknown type, which C12 rejects
mapElement_Strict(e) ==
    IF IsRaise(lookup(e.tag, dict_get(e.attrib, "type", None)))
    THEN lookup(e.tag, dict_get(e.attrib, "type", None))
    ELSE loadData(lookup(e.tag, dict_get(e.attrib, "type", None))[2], e,
                  findItems(e.children))

\* mapElement: the registered factory, or the generic object of an unknown type
mapElement(e) ==
    loadData(ClassOf(lookup(e.tag, dict_get(e.attrib, "type", None))), e,
             findItems(e.children))

SkipRaise(o) == IF IsRaise(o) THEN <<>> ELSE <<o>>

\* findItems / mapDocument: the elements in document order, each mapped on its
\* own; an element whose mapping fails is skipped
findItems(es) ==
    IF Len(es) = 0 THEN <<>>
    ELSE SkipRaise(mapElement(Head(es))) \o findItems(Tail(es))

----------------------------------------------------------------------------
(* Python's % formatting of a str: the format is given as its characters,  *)
(* a run of characters without % written as one piece                      *)

ConversionTypes ==
    {"d", "i", "o", "u", "x", "X", "e", "E", "f", "F", "g", "G", "c", "r", "s", "a"}

\* the text a conversion of one argument produces; a float conversion of a
\* number is written as the number followed by the conversion type
Render(conv, v) ==
    IF conv \in {"s", "r", "a"}
    THEN Str(IF v[1] = "int" THEN ToString(v[2]) ELSE v[2])
    ELSE IF v[1] # "int" THEN Raise("TypeError", "", 0)
    ELSE IF conv \in {"d", "i", "u"} THEN Str(ToString(v[2]))
    ELSE Str(ToString(v[2]) \o conv)

RECURSIVE SkipWidth(_, _)
SkipWidth(fmt, j) ==
    IF j <= Len(fmt) /\ fmt[j] \in Digits THEN SkipWidth(fmt, j + 1) ELSE j

RECURSIVE PyFormatFrom(_, _, _, _)
PyFormatFrom(fmt, i, args, out) ==
    IF i > Len(fmt)
    THEN IF Len(args) > 0 THEN Raise("TypeError", "", 0) ELSE Str(out)
    ELSE IF fmt[i] # "%" THEN PyFormatFrom(fmt, i + 1, args, out \o fmt[i])
    ELSE LET j == SkipWidth(fmt, i + 1)
         IN  IF j > Len(fmt) THEN Raise("ValueError", "", 0)
             ELSE IF fmt[j] = "%" THEN PyFormatFrom(fmt, j + 1, args, out \o "%")
             ELSE IF fmt[j] \notin ConversionTypes THEN Raise("ValueError", "", 0)
             ELSE IF Len(args) = 0 THEN Raise("TypeError", "", 0)
             ELSE LET t == Render(fmt[j], Head(args))
                  IN  IF IsRaise(t) THEN t
                      ELSE PyFormatFrom(fmt, j + 1, Tail(args), out \o t[2])

\* fmt % args
PyFormat(fmt, args) == PyFormatFrom(fmt, 1, args, "")

----------------------------------------------------------------------------
(* Transport and XML adapter *)

\* what the server answers to one request: a status and the children of the
\* MediaContainer of the body
Answer(status, body) == [status |-> status, body |-> body]

\* one request as the transport saw it, with the answer it got
Req(method, path, ans) ==
    [method |-> method, path |-> path, status |-> ans.status, body |-> ans.body]

NoAnswer == Answer(0, <<>>)

\* server._queryReturnResponse(key): the transport's get, which returns the
\* response whatever its status
_queryReturnResponse(key, ans) ==
    <<"response", [status |-> ans.status, url |-> key, body |-> ans.body]>>

\* the dict of one element: its attributes under '@name'
ElementDict(e) ==
    Dict([k \in {"@" \o a : a \in DOMAIN e.attrib} |->
            Str(e.attrib[CHOOSE a \in DOMAIN e.attrib : "@" \o a = k])])

\* utils.parseXmlToDict: children of one tag become a dict when there is one
\* and a list of dicts when there are several; a container without children
\* is None
parseXmlToDict(body) ==
    LET tags == {body[i].tag : i \in 1..Len(body)}
        of(t) == SelectSeq(body, LAMBDA e : e.tag = t)
        group(t) == IF Len(of(t)) = 1 THEN ElementDict(of(t)[1])
                    ELSE List([i \in 1..Len(of(t)) |-> ElementDict(of(t)[i])])
    IN  Dict([c \in {"MediaContainer"} |->
                IF Len(body) = 0 THEN None ELSE Dict([t \in tags |-> group(t)])])

\* obj[name] for a str subscript
getitem(obj, name) ==
    CASE IsRaise(obj) -> obj
      [] obj[1] = "dict" ->
            IF name \in DOMAIN obj[2] THEN obj[2][name] ELSE Raise("KeyError", "", 0)
      [] OTHER -> Raise("TypeError", "", 0)

\* obj[i] for an int subscript, counted from 0; no dict of the adapter has an
\* int key
getindex(obj, i) ==
    CASE IsRaise(obj) -> obj
      [] obj[1] = "list" ->
            IF i + 1 \in 1..Len(obj[2]) THEN obj[2][i + 1] ELSE Raise("IndexError", "", 0)
      [] obj[1] = "dict" -> Raise("KeyError", "", 0)
      [] OTHER -> Raise("TypeError", "", 0)

\* the exception server.query raises for a status
ExceptionOf(status) ==
    IF status = 401 THEN "Unauthorized" ELSE IF status = 404 THEN "NotFound" ELSE "BadRequest"

\* fetchItems(ekey): one GET; a status that is not a success is raised with
\* the url and the status, otherwise the document is mapped
fetchItems(ekey, ans) ==
    IF ans.status \notin {200, 201, 204}
    THEN Raise(ExceptionOf(ans.status), ekey, ans.status)
    ELSE List(findItems(ans.body))

----------------------------------------------------------------------------
(* LiveTV: self is the record of the fields _dvrs, _cloud_key, _xmltv_key;  *)
(* an accessor yields what it returns (or raises), the requests it issued  *)
(* and the fields it leaves                                                *)

Self(dvrs, ck, xk) == [dvrs |-> dvrs, ck |-> ck, xk |-> xk]

Result(ret, reqs, self) == [ret |-> ret, reqs |-> reqs, self |-> self]

\* a faulty __init__ that resolves dvrs eagerly, which C8 rejects
LiveTV__init__Eager ==
    Result(None, <<Req("GET", "/livetv/dvrs", Answer(200, <<>>))>>,
           Self(List(<<>>), None, None))

\* LiveTV.__init__: the fields right after construction, and the requests
\* construction issued
LiveTV__init__ == Result(None, <<>>, Self(List(<<>>), None, None))

\* LiveTV._parseXmlToDict(key)
_parseXmlToDict(key, ans) ==
    LET response == _queryReturnResponse(key, ans)
    IN  IF ~Truthy(response) THEN None ELSE parseXmlToDict(response[2].body)

\* a faulty extraction that reads the first Directory, which C6 rejects
FirstDirectoryTitle(data) ==
    getitem(getindex(getitem(getitem(data, "MediaContainer"), "Directory"), 0), "@title")

\* data['MediaContainer']['Directory'][1]['@title']
SecondDirectoryTitle(data) ==
    getitem(getindex(getitem(getitem(data, "MediaContainer"), "Directory"), 1), "@title")

CloudPath == "/tv.plex.providers.epg.cloud"
XmltvPath == "/tv.plex.providers.epg.xmltv"

\* a faulty cloud_key without the try/except around the extraction of the
\* title, which C20 rejects
cloud_key_Raising(self, ans) ==
    IF ~Truthy(self.ck)
    THEN LET data == _parseXmlToDict(CloudPath, ans)
             reqs == <<Req("GET", CloudPath, ans)>>
             title == SecondDirectoryTitle(data)
         IN  IF ~Truthy(data) THEN Result(None, reqs, self)
             ELSE IF IsRaise(title) THEN Result(title, reqs, self)
             ELSE Result(title, reqs, [self EXCEPT !.ck = title])
    ELSE Result(self.ck, <<>>, self)

\* a faulty cloud_key that asks again when the lookup failed, which C17 rejects
cloud_key_Retry(self, ans) ==
    IF ~Truthy(self.ck)
    THEN LET data == _parseXmlToDict(CloudPath, ans)
             reqs == <<Req("GET", CloudPath, ans)>>
             title == SecondDirectoryTitle(data)
         IN  IF ~Truthy(data) THEN Result(None, reqs \o reqs, self)
             ELSE IF IsRaise(title) THEN Result(self.ck, reqs, self)
             ELSE Result(title, reqs, [self EXCEPT !.ck = title])
    ELSE Result(self.ck, <<>>, self)

\* LiveTV.cloud_key
cloud_key(self, ans) ==
    IF ~Truthy(self.ck)
    THEN LET data == _parseXmlToDict(CloudPath, ans)
             reqs == <<Req("GET", CloudPath, ans)>>
             title == SecondDirectoryTitle(data)
         IN  IF ~Truthy(data) THEN Result(None, reqs, self)
             ELSE IF IsRaise(title) THEN Result(self.ck, reqs, self)
             ELSE Result(title, reqs, [self EXCEPT !.ck = title])
    ELSE Result(self.ck, <<>>, self)

\* a faulty xmltv_key that looks the key up on every access, which C18 rejects
xmltv_key_NoCache(self, ans) ==
    LET data == _parseXmlToDict(XmltvPath, ans)
        reqs == <<Req("GET", XmltvPath, ans)>>
        title == SecondDirectoryTitle(data)
    IN  IF ~Truthy(data) THEN Result(None, reqs, self)
        ELSE IF IsRaise(title) THEN Result(self.xk, reqs, self)
        ELSE Result(title, reqs, [self EXCEPT !.xk = title])

\* LiveTV.xmltv_key
xmltv_key(self, ans) ==
    IF ~Truthy(self.xk)
    THEN LET data == _parseXmlToDict(XmltvPath, ans)
             reqs == <<Req("GET", XmltvPath, ans)>>
             title == SecondDirectoryTitle(data)
         IN  IF ~Truthy(data) THEN Result(None, reqs, self)
             ELSE IF IsRaise(title) THEN Result(self.xk, reqs, self)
             ELSE Result(title, reqs, [self EXCEPT !.xk = title])
    ELSE Result(self.xk, <<>>, self)

\* return self.fetchItems(path), for an accessor that caches nothing
Fetched(path, ans, self) ==
    Result(fetchItems(path, ans), <<Req("GET", path, ans)>>, self)

\* the items of a list from the last to the first
RECURSIVE Reversed(_)
Reversed(q) == IF Len(q) = 0 THEN <<>> ELSE Append(Reversed(Tail(q)), Head(q))

\* a faulty dvrs that caches the fetched list back to front, which C13 rejects
dvrs_Reversed(self, ans) ==
    IF ~Truthy(self.dvrs)
    THEN LET r == Fetched("/livetv/dvrs", ans, self)
         IN  IF IsRaise(r.ret) THEN r
             ELSE Result(List(Reversed(r.ret[2])), r.reqs,
                         [self EXCEPT !.dvrs = List(Reversed(r.ret[2]))])
    ELSE Result(self.dvrs, <<>>, self)

\* LiveTV.dvrs
dvrs(self, ans) ==
    IF ~Truthy(self.dvrs)
    THEN LET r == Fetched("/livetv/dvrs", ans, self)
         IN  IF IsRaise(r.ret) THEN r
             ELSE Result(r.ret, r.reqs, [self EXCEPT !.dvrs = r.ret])
    ELSE Result(self.dvrs, <<>>, self)

\* a faulty sessions that answers None for an empty list, which C3 rejects
sessions_NoneWhenEmpty(self, ans) ==
    LET r == Fetched("/livetv/sessions", ans, self)
    IN  IF Truthy(r.ret) THEN r ELSE Result(None, r.reqs, self)

\* LiveTV.sessions
sessions(self, ans) == Fetched("/livetv/sessions", ans, self)

\* a faulty recordings that lets the failure of one element end the mapping
\* of the document, which C5 rejects
recordings_FailFast(self, ans) ==
    LET r == Fetched("/media/subscriptions/scheduled", ans, self)
        bad == {i \in 1..Len(ans.body) : IsRaise(mapElement(ans.body[i]))}
    IN  IF IsRaise(r.ret) \/ bad = {} THEN r
        ELSE Result(mapElement(ans.body[CHOOSE i \in bad : \A j \in bad : i <= j]),
                    r.reqs, self)

\* LiveTV.recordings
recordings(self, ans) == Fetched("/media/subscriptions/scheduled", ans, self)

\* a faulty scheduled that forgets the two provider keys, which C21 rejects
scheduled_DroppingKeys(self, ans) ==
    Fetched("/media/subscriptions", ans, [self EXCEPT !.ck = None, !.xk = None])

\* LiveTV.scheduled
scheduled(self, ans) == Fetched("/media/subscriptions", ans, self)

\* LiveTV._guide_items(key, grid_type, beginsAt, endsAt)
_guide_items(self, key, grid_type, beginsAt, endsAt, ans) ==
    LET k0 == PyFormat(<<"/", "%", "s", "/grid?type=", "%", "s">>,
                       <<Str(key), PyInt(grid_type)>>)
        f1 == IF Truthy(beginsAt)
              THEN PyFormat(<<"&beginsAt", "%", "3", "C", "=", "%", "s">>,
                            <<PyInt(datetimeToEpoch(beginsAt))>>)
              ELSE Str("")
        f2 == IF Truthy(endsAt)
              THEN PyFormat(<<"&endsAt", "%", "3", "E", "=", "%", "s">>,
                            <<PyInt(datetimeToEpoch(endsAt))>>)
              ELSE Str("")
    IN  IF IsRaise(k0) THEN Result(k0, <<>>, self)
        ELSE IF IsRaise(f1) THEN Result(f1, <<>>, self)
        ELSE IF IsRaise(f2) THEN Result(f2, <<>>, self)
        ELSE Fetched(k0[2] \o f1[2] \o f2[2], ans, self)

\* the answers one call of hubs, movies or shows consumes: the key lookup and
\* the listing of each provider
Answers(ck, cl, xk, xl) == [ck |-> ck, cl |-> cl, xk |-> xk, xl |-> xl]

\* the grid type an accessor lists
GridTypeOf(what) == IF what = "movies" THEN 1 ELSE 4

\* the call an accessor makes with the key of a provider: hubs fetches
\* /<key>/hubs/discover, movies and shows call _guide_items
Listing(what, self, key, beginsAt, endsAt, ans) ==
    IF what = "hubs" THEN Fetched("/" \o key \o "/hubs/discover", ans, self)
    ELSE _guide_items(self, key, GridTypeOf(what), beginsAt, endsAt, ans)

\* the outcome r of a call made after the requests reqs were issued
Requested(reqs, r) == Result(r.ret, reqs \o r.reqs, r.self)

\* if self.<key>: items.extend(<listing of self.<key>>): c is the access of
\* the key in the condition and again the access of the key in the listing;
\* without a key nothing is requested
Extend(what, c, again, beginsAt, endsAt, ans) ==
    IF Truthy(c.ret)
    THEN Requested(again.reqs,
                   Listing(what, again.self, again.ret[2], beginsAt, endsAt, ans))
    ELSE Result(List(<<>>), <<>>, c.self)

\* a faulty merge that puts the items of xmltv first, which C19 rejects
Extended_XmltvFirst(c, l1, x, l2) ==
    IF IsRaise(l1.ret) THEN Result(l1.ret, c.reqs \o l1.reqs, l1.self)
    ELSE IF IsRaise(l2.ret)
    THEN Result(l2.ret, c.reqs \o l1.reqs \o x.reqs \o l2.reqs, l2.self)
    ELSE Result(List(l2.ret[2] \o l1.ret[2]),
                c.reqs \o l1.reqs \o x.reqs \o l2.reqs, l2.self)

\* the outcome after the two providers: c and x are the lookups of the keys,
\* l1 and l2 the listings; the first listing that raises ends the call
Extended(c, l1, x, l2) ==
    IF IsRaise(l1.ret) THEN Result(l1.ret, c.reqs \o l1.reqs, l1.self)
    ELSE IF IsRaise(l2.ret)
    THEN Result(l2.ret, c.reqs \o l1.reqs \o x.reqs \o l2.reqs, l2.self)
    ELSE Result(List(l1.ret[2] \o l2.ret[2]),
                c.reqs \o l1.reqs \o x.reqs \o l2.reqs, l2.self)

\* the xmltv provider, after the cloud provider's lookup c and listing l1
ThenXmltv(what, beginsAt, endsAt, a, c, l1, x) ==
    Extended(c, l1, x, Extend(what, x, xmltv_key(x.self, a.xk), beginsAt, endsAt, a.xl))

AfterCloud(what, beginsAt, endsAt, a, c, l1) ==
    ThenXmltv(what, beginsAt, endsAt, a, c, l1, xmltv_key(l1.self, a.xk))

FromCloud(what, beginsAt, endsAt, a, c) ==
    AfterCloud(what, beginsAt, endsAt, a, c,
               Extend(what, c, cloud_key(c.self, a.ck), beginsAt, endsAt, a.cl))

\* items = []; if self.cloud_key: items.extend(...); if self.xmltv_key:
\* items.extend(...); return items
BothProviders(what, self, beginsAt, endsAt, a) ==
    FromCloud(what, beginsAt, endsAt, a, cloud_key(self, a.ck))

\* LiveTV.hubs
hubs(self, a) == BothProviders("hubs", self, None, None, a)

\* LiveTV.movies(beginsAt, endsAt)
movies(self, beginsAt, endsAt, a) ==
    BothProviders("movies", self, beginsAt, endsAt, a)

\* LiveTV.shows(beginsAt, endsAt)
shows(self, beginsAt, endsAt, a) ==
    BothProviders("shows", self, beginsAt, endsAt, a)

\* LiveTV.guide(beginsAt, endsAt)
guide(self, beginsAt, endsAt, a) == movies(self, beginsAt, endsAt, a)

----------------------------------------------------------------------------
(* What the server may answer *)

\* the sequences over S of length at most n
RECURSIVE SeqsUpTo(_, _)
SeqsUpTo(S, n) ==
    IF n = 0 THEN {<<>>}
    ELSE LET shorter == SeqsUpTo(S, n - 1)
         IN  shorter \cup {Append(q, x) : q \in shorter, x \in S}

\* a failure status, or a success with one of the documents
AnswersOf(docs) == {Answer(404, <<>>)} \cup {Answer(200, d) : d \in docs}

\* the i-th Directory of a provider's container, with or without a title
Directory(provider, i, titled) ==
    Element("Directory",
            IF titled
            THEN ("id" :> ToString(i)) @@ ("title" :> (provider \o ".guide" \o ToString(i)))
            ELSE ("id" :> ToString(i)),
            <<>>)

DirectoryDocs(provider) ==
    UNION {{[i \in 1..n |-> Directory(provider, i, i \in titled)] : titled \in SUBSET (1..n)} :
           n \in 0..MaxDirs}

KeyAnswers(provider) == AnswersOf(DirectoryDocs(provider))

DvrElements ==
    {Element("Dvr", ("key" :> "1") @@ ("lineupTitle" :> "one"), <<>>),
     Element("Dvr", ("key" :> "2") @@ ("uuid" :> "two"),
             <<Element("Device", ("key" :> "tuner") @@ ("tuners" :> "2"), <<>>)>>)}

\* the DVRs the server has, in its order, of which /livetv/dvrs lists the
\* first n
DvrListed(n) ==
    [i \in 1..n |->
        IF i % 2 = 1
        THEN Element("Dvr", ("key" :> ToString(i)) @@ ("lineupTitle" :> "one"), <<>>)
        ELSE Element("Dvr", ("key" :> ToString(i)) @@ ("uuid" :> "two"),
                     <<Element("Device", ("key" :> "tuner") @@ ("tuners" :> "2"), <<>>)>>)]

DvrAnswers == AnswersOf({DvrListed(n) : n \in 0..MaxDocLen})

VideoElements ==
    {Element("Video", ("type" :> "movie") @@ ("title" :> "film"), <<>>),
     Element("Video", ("type" :> "show") @@ ("title" :> "serial"), <<>>)}

SubscriptionElements ==
    {Element("MediaSubscription", ("key" :> "5") @@ ("type" :> "2") @@ ("title" :> "rec"), <<>>),
     Element("MediaGrabOperation", ("key" :> "6") @@ ("status" :> "scheduled"), <<>>),
     Element("Video", ("type" :> "movie") @@ ("title" :> "film"), <<>>),
     Element("Playlist", ("title" :> "list"), <<>>)}

\* the first n items the server lists under a path
ListingDoc(tag, etype, path, n) ==
    [i \in 1..n |->
        Element(tag, ("type" :> etype) @@ ("key" :> (path \o "#" \o ToString(i))), <<>>)]

GridTypeName(grid_type) == IF grid_type = 1 THEN "movie" ELSE "show"

GridAnswers(key, grid_type) ==
    AnswersOf({ListingDoc("Video", GridTypeName(grid_type),
                          "/" \o key \o "/grid?type=" \o ToString(grid_type), n) :
               n \in 0..MaxDocLen})

HubAnswers(key) ==
    AnswersOf({ListingDoc("Hub", "clip", "/" \o key \o "/hubs/discover", n) :
               n \in 0..MaxDocLen})

\* the arguments beginsAt and endsAt: absent, or a datetime
BeginsAtArgs == {None, Datetime(100, 0)}
EndsAtArgs == {None, Datetime(200, 5)}

\* the keys _guide_items is called with
GuideKeys == {"cloud.guide2", "xmltv.guide2"}

----------------------------------------------------------------------------
(* The LiveTV instance: one action per accessor *)

Unset == <<"unset", 0>>
\* no caller runs beside the one of last
NoThreads == <<>>
NotMapped == <<"notmapped", 0>>

\* the command line of a bootstrap that was not started
NoOpts ==
    [bootstrap_timeout |-> 0, accept_eula |-> FALSE, with_movies |-> FALSE,
     with_shows |-> FALSE, with_music |-> FALSE, with_photos |-> FALSE,
     with_photo_album |-> FALSE]

\* no timeline entry reached alert_callback
NoneAnnounced == [counted |-> 0, photos |-> 0]

\* the bootstrap called with the command line o stands before its first wait
BootStarts(o) ==
    /\ opts = o
    /\ start_time = 0
    /\ server = None
    /\ acceptedEULA = FALSE
    /\ downloaded = FALSE
    /\ expected_media_count = 0
    /\ sections = <<>>
    /\ first_section = None
    /\ success = FALSE
    /\ calls = <<>>
    /\ notifier = FALSE
    /\ finished = FALSE
    /\ processed_media = 0
    /\ announced = NoneAnnounced
    /\ album_created = FALSE
    /\ printed = {}
    /\ exit_status = None

\* wait_until was not called
NoWait == <<>>

\* neither tool runs
ToolsIdle ==
    /\ at = "idle"
    /\ now = 0
    /\ BootStarts(NoOpts)
    /\ wait = NoWait

Me == Self(_dvrs, _cloud_key, _xmltv_key)

Pre == [dvrs |-> _dvrs, ck |-> _cloud_key, xk |-> _xmltv_key, resolved |-> resolved]

Last(op, args, pre, reqs, ret, ref) ==
    [op |-> op, args |-> args, pre |-> pre, reqs |-> reqs, ret |-> ret, ref |-> ref]

\* no call is under way: the caller has taken the outcome of the last one
Idle == Last("idle", <<>>, [dvrs |-> Unset, ck |-> Unset, xk |-> Unset, resolved |-> None],
             <<>>, None, None)

\* an accessor may be called on the constructed object by a caller that is
\* not inside another call
Callable == constructed /\ last = Idle

\* the accessor op ran with outcome r
Do(op, args, r, ref) ==
    /\ _dvrs' = r.self.dvrs
    /\ _cloud_key' = r.self.ck
    /\ _xmltv_key' = r.self.xk
    /\ resolved' = IF op = "dvrs" /\ IsNone(resolved) /\ ~IsRaise(r.ret)
                   THEN r.ret ELSE resolved
    /\ last' = Last(op, args, Pre, r.reqs, r.ret, ref)
    /\ UNCHANGED <<elem, kind, mapped, constructed, threads, toolVars>>

CloudKey ==
    /\ Callable
    /\ \E ans \in (IF Truthy(_cloud_key) THEN {NoAnswer} ELSE KeyAnswers("cloud")) :
        Do("cloud_key", <<>>, cloud_key(Me, ans), None)

XmltvKey ==
    /\ Callable
    /\ \E ans \in (IF Truthy(_xmltv_key) THEN {NoAnswer} ELSE KeyAnswers("xmltv")) :
        Do("xmltv_key", <<>>, xmltv_key(Me, ans), None)

Dvrs ==
    /\ Callable
    /\ \E ans \in (IF Truthy(_dvrs) THEN {NoAnswer} ELSE DvrAnswers) :
        Do("dvrs", <<>>, dvrs(Me, ans), None)

Sessions ==
    /\ Callable
    /\ \E ans \in AnswersOf(SeqsUpTo(VideoElements, MaxDocLen)) :
        Do("sessions", <<>>, sessions(Me, ans), None)

Recordings ==
    /\ Callable
    /\ \E ans \in AnswersOf(SeqsUpTo(SubscriptionElements, MaxDocLen)) :
        Do("recordings", <<>>, recordings(Me, ans), None)

Scheduled ==
    /\ Callable
    /\ \E ans \in AnswersOf(SeqsUpTo(SubscriptionElements, MaxDocLen)) :
        Do("scheduled", <<>>, scheduled(Me, ans), None)

GuideItems ==
    /\ Callable
    /\ \E key \in GuideKeys, grid_type \in {1, 4}, b \in BeginsAtArgs, e \in EndsAtArgs :
        \E ans \in (IF Len(_guide_items(Me, key, grid_type, b, e, NoAnswer).reqs) = 0
                    THEN {NoAnswer} ELSE GridAnswers(key, grid_type)) :
            Do("_guide_items", <<Str(key), PyInt(grid_type), b, e>>,
               _guide_items(Me, key, grid_type, b, e, ans), None)

\* the answers the server may give to the requests of one call on the two
\* providers: an answer is chosen for each request the call issues
CallAnswers(what, beginsAt, endsAt) ==
    LET listing(s, key, ans) == Listing(what, s, key, beginsAt, endsAt, ans)
        listingAnswers(key) == IF what = "hubs" THEN HubAnswers(key)
                               ELSE GridAnswers(key, GridTypeOf(what))
        ckSet == IF Truthy(_cloud_key) THEN {NoAnswer} ELSE KeyAnswers("cloud")
        clSet(ack) ==
            LET c == cloud_key(Me, ack)
            IN  IF Truthy(c.ret) /\ Len(listing(c.self, c.ret[2], NoAnswer).reqs) > 0
                THEN listingAnswers(c.ret[2]) ELSE {NoAnswer}
        cloudRaises(ack, acl) ==
            LET c == cloud_key(Me, ack)
            IN  Truthy(c.ret) /\ IsRaise(listing(c.self, c.ret[2], acl).ret)
        xkSet(ack, acl) ==
            IF cloudRaises(ack, acl) \/ Truthy(_xmltv_key) THEN {NoAnswer}
            ELSE KeyAnswers("xmltv")
        xlSet(ack, acl, axk) ==
            LET x == xmltv_key(Me, axk)
            IN  IF ~cloudRaises(ack, acl) /\ Truthy(x.ret)
                   /\ Len(listing(x.self, x.ret[2], NoAnswer).reqs) > 0
                THEN listingAnswers(x.ret[2]) ELSE {NoAnswer}
    IN  UNION {UNION {UNION {{Answers(ack, acl, axk, axl) : axl \in xlSet(ack, acl, axk)} :
                             axk \in xkSet(ack, acl)} :
                      acl \in clSet(ack)} :
               ack \in ckSet}

Hubs ==
    /\ Callable
    /\ \E a \in CallAnswers("hubs", None, None) :
        Do("hubs", <<>>, hubs(Me, a), None)

Movies ==
    /\ Callable
    /\ \E b \in BeginsAtArgs, e \in EndsAtArgs :
        \E a \in CallAnswers("movies", b, e) :
            Do("movies", <<b, e>>, movies(Me, b, e, a), None)

Shows ==
    /\ Callable
    /\ \E b \in BeginsAtArgs, e \in EndsAtArgs :
        \E a \in CallAnswers("shows", b, e) :
            Do("shows", <<b, e>>, shows(Me, b, e, a), None)

\* the server's grid of shows, full, answering the listings that
\* shows(beginsAt, endsAt) would request from the state of the call and the
\* key lookups answered by a
ShowsAnswers(a) ==
    LET full(r) == IF Truthy(r.ret)
                   THEN Answer(200, ListingDoc("Video", GridTypeName(4),
                                               "/" \o r.ret[2] \o "/grid?type=4", MaxDocLen))
                   ELSE NoAnswer
    IN  Answers(a.ck, full(cloud_key(Me, a.ck)), a.xk, full(xmltv_key(Me, a.xk)))

\* guide(beginsAt, endsAt); last.ref records what movies and shows return
\* from the same state against the same server, whose grid of shows is full
Guide ==
    /\ Callable
    /\ \E b \in BeginsAtArgs, e \in EndsAtArgs :
        \E a \in CallAnswers("movies", b, e) :
            Do("guide", <<b, e>>, guide(Me, b, e, a),
               <<"ref", [movies |-> movies(Me, b, e, a).ret,
                         shows |-> shows(Me, b, e, ShowsAnswers(a)).ret]>>)

\* the caller takes the outcome of the call, and may call again
Return ==
    /\ last # Idle
    /\ last' = Idle
    /\ UNCHANGED <<elem, kind, mapped, constructed, _dvrs, _cloud_key, _xmltv_key, resolved,
                   threads, toolVars>>

Init ==
    /\ elem = Element("None", <<>>, <<>>)
    /\ kind = "LiveTV"
    /\ mapped = NotMapped
    /\ constructed = TRUE
    /\ _dvrs = LiveTV__init__.self.dvrs
    /\ _cloud_key = LiveTV__init__.self.ck
    /\ _xmltv_key = LiveTV__init__.self.xk
    /\ resolved = None
    /\ threads = NoThreads
    /\ ToolsIdle
    /\ last = Last("__init__", <<>>, [dvrs |-> Unset, ck |-> Unset, xk |-> Unset,
                                      resolved |-> None],
                   LiveTV__init__.reqs, LiveTV__init__.ret, None)

Next ==
    \/ CloudKey
    \/ XmltvKey
    \/ Dvrs
    \/ Sessions
    \/ Hubs
    \/ Recordings
    \/ Scheduled
    \/ GuideItems
    \/ Movies
    \/ Shows
    \/ Guide
    \/ Return

Spec == Init /\ [][Next]_vars

----------------------------------------------------------------------------
(* The mapping layer on its own: an element of a kind is handed to the     *)
(* kind's constructor, which runs _loadData                                *)

RowsOf(cls) ==
    CASE cls = "IPTVChannel" -> IPTVChannelRows
      [] cls = "Recording" -> RecordingRows
      [] cls = "ScheduledRecording" -> ScheduledRecordingRows
      [] cls = "Setting" -> SettingRows
      [] cls = "DVRChannel" -> DVRChannelRows
      [] cls = "DVRDevice" -> DVRDeviceRows
      [] cls = "DVR" -> DVRRows
      [] OTHER -> <<>>

TagOf(cls) ==
    CASE cls = "IPTVChannel" -> "Directory"
      [] cls = "Recording" -> "MediaSubscription"
      [] cls = "ScheduledRecording" -> "MediaGrabOperation"
      [] cls = "Setting" -> "Setting"
      [] cls = "DVRChannel" -> "ChannelMapping"
      [] cls = "DVRDevice" -> "Device"
      [] cls = "DVR" -> "Dvr"
      [] OTHER -> "MediaContainer"

\* the attributes the kind reads
AttrsOf(cls) == {RowsOf(cls)[i].attr : i \in 1..Len(RowsOf(cls))}

\* the value of the i-th attribute in variant v: a number of its own, which
\* variant 0 spells after the letter x (no int, no timestamp)
AttrValue(i, v) == IF v = 0 THEN "x" \o ToString(i) ELSE ToString(20 * (v - 1) + i)

ElementOf(cls, present, v) ==
    Element(TagOf(cls),
            [a \in present |->
                AttrValue(CHOOSE i \in 1..Len(RowsOf(cls)) : RowsOf(cls)[i].attr = a, v)],
            <<>>)

\* str + value: the concatenation of two str, else TypeError
str_add(left, value) ==
    IF value[1] = "str" THEN Str(left \o value[2]) ELSE Raise("TypeError", "", 0)

\* Recording.delete(): self._server.query(key='/media/subscription/' + self.key,
\* method=self._server._session.delete); it returns nothing and sets no field
Recording_delete(self, ans) ==
    LET key == str_add("/media/subscription/", self[2].f["key"])
    IN  IF IsRaise(key) THEN Result(key, <<>>, self)
        ELSE Result(IF ans.status \notin {200, 201, 204}
                    THEN Raise(ExceptionOf(ans.status), key[2], ans.status)
                    ELSE None,
                    <<Req("DELETE", key[2], ans)>>, self)

\* Recording(server, data).delete(): without an object, when the constructor
\* raised in _loadData, the call of delete is never reached
DeleteOf(obj, ans) ==
    IF IsRaise(obj) THEN Result(obj, <<>>, obj) ELSE Recording_delete(obj, ans)

DeleteAnswers == {Answer(200, <<>>), Answer(404, <<>>)}

Mapping(cls) == kind = cls /\ mapped = NotMapped

Loaded(obj) ==
    /\ mapped' = obj
    /\ last' = Last("_loadData", <<>>, Pre, <<>>, None, None)
    /\ UNCHANGED <<elem, kind, constructed, _dvrs, _cloud_key, _xmltv_key, resolved, threads,
                   toolVars>>

MapIPTVChannel ==
    Mapping("IPTVChannel") /\ Loaded(IPTVChannel_loadData(elem, findItems(elem.children)))

MapRecording ==
    Mapping("Recording") /\ Loaded(Recording_loadData(elem, findItems(elem.children)))

MapScheduledRecording ==
    /\ Mapping("ScheduledRecording")
    /\ Loaded(ScheduledRecording_loadData(elem, findItems(elem.children)))

MapSetting ==
    Mapping("Setting") /\ Loaded(Setting_loadData(elem, findItems(elem.children)))

MapDVRChannel ==
    Mapping("DVRChannel") /\ Loaded(DVRChannel_loadData(elem, findItems(elem.children)))

MapDVRDevice ==
    Mapping("DVRDevice") /\ Loaded(DVRDevice_loadData(elem, findItems(elem.children)))

MapDVR ==
    Mapping("DVR") /\ Loaded(DVR_loadData(elem, findItems(elem.children)))

\* delete() on the Recording that was mapped from elem; last.ref keeps the
\* object as it was before the call
DeleteRecording ==
    /\ kind = "Recording"
    /\ last.op = "_loadData"
    /\ \E ans \in DeleteAnswers :
        /\ mapped' = DeleteOf(mapped, ans).self
        /\ last' = Last("delete", <<>>, Pre, DeleteOf(mapped, ans).reqs,
                        DeleteOf(mapped, ans).ret, <<"ref", mapped>>)
    /\ UNCHANGED <<elem, kind, constructed, _dvrs, _cloud_key, _xmltv_key, resolved, threads,
                   toolVars>>

\* LiveTV(server, data): __init__, which ends in _loadData(data)
Construct ==
    /\ kind = "LiveTV"
    /\ ~constructed
    /\ constructed' = TRUE
    /\ _dvrs' = LiveTV__init__.self.dvrs
    /\ _cloud_key' = LiveTV__init__.self.ck
    /\ _xmltv_key' = LiveTV__init__.self.xk
    /\ last' = Last("__init__", <<>>, Pre, LiveTV__init__.reqs, LiveTV__init__.ret, None)
    /\ UNCHANGED <<elem, kind, mapped, resolved, threads, toolVars>>

InitMap ==
    /\ kind \in LivetvKinds \cup {"LiveTV"}
    /\ \E present \in SUBSET AttrsOf(kind), v \in 0..MaxVariant :
            elem = ElementOf(kind, present, v)
    /\ mapped = NotMapped
    /\ constructed = FALSE
    /\ _dvrs = Unset
    /\ _cloud_key = Unset
    /\ _xmltv_key = Unset
    /\ resolved = None
    /\ threads = NoThreads
    /\ ToolsIdle
    /\ last = Idle

NextMap ==
    \/ MapIPTVChannel
    \/ MapRecording
    \/ MapScheduledRecording
    \/ MapSetting
    \/ MapDVRChannel
    \/ MapDVRDevice
    \/ MapDVR
    \/ DeleteRecording
    \/ Construct

SpecMap == InitMap /\ [][NextMap]_vars

----------------------------------------------------------------------------
(* PlexServer: the registry lookup and the requests of a top-level resource *)

\* the tags and type attributes looked up
RegistryTags ==
    {"Directory", "Dvr", "Device", "Video", "MediaSubscription", "MediaGrabOperation",
     "Setting", "ChannelMapping", "Hub", "Playlist"}

TypeAttributes == {None, Str(""), Str("channel"), Str("movie"), Str("show"), Str("clip")}

\* server.query(key): the parsed document, or the exception of the status
query(key, ans) ==
    IF ans.status \notin {200, 201, 204}
    THEN Raise(ExceptionOf(ans.status), key, ans.status)
    ELSE <<"xml", ans.body>>

\* the elements of a document that carry attribute name with the value given
Matching(body, name, value) ==
    SelectSeq(body, LAMBDA e : name \in DOMAIN e.attrib /\ e.attrib[name] = value)

\* the first element of the elements found, mapped; NotFound when there is none
FirstOrNotFound(data, found, key) ==
    IF IsRaise(data) THEN data
    ELSE IF Len(found) = 0 THEN Raise("NotFound", key, 200)
    ELSE mapElement(found[1])

\* a fetchItem that answers None for a missing item, which C14 rejects
fetchItem_NoneWhenMissing(ekey, ans) ==
    IF ans.status = 200 /\ Len(ans.body) > 0 THEN mapElement(ans.body[1]) ELSE None

\* server.fetchItem(ekey): the first element under the key
fetchItem(ekey, ans) == FirstOrNotFound(query(ekey, ans), ans.body, ekey)

\* the path fetchItem(ratingKey) asks for
MetadataPath(ratingKey) == "/library/metadata/" \o ToString(ratingKey)

\* server.client(name): the client of that name among /clients
client(name, ans) ==
    FirstOrNotFound(query("/clients", ans), Matching(ans.body, "name", name), "/clients")

\* server.playlist(title): the playlist of that title among /playlists
playlist(title, ans) ==
    FirstOrNotFound(query("/playlists", ans), Matching(ans.body, "title", title),
                    "/playlists")

\* what the server holds: items by rating key, clients and playlists by name
RatingKeys == {7, 123456789}
QueryPaths == {"/", "/library", "/asdf/1234/asdf"}
ClientNames == {"den", "<This-client-should-not-be-found>"}
PlaylistTitles == {"mix", "<playlist-not-found>"}

ServerElements(tag, name) ==
    {Element(tag, (name :> "den") @@ ("key" :> "1"), <<>>),
     Element(tag, (name :> "mix") @@ ("key" :> "2"), <<>>)}

ServerAnswers(tag, name) == AnswersOf(SeqsUpTo(ServerElements(tag, name), MaxDocLen))

\* the caller of the server is not inside another call
ServerIdle == kind = "PlexServer" /\ last = Idle

\* the server call op ran: it leaves every field alone
Called(op, args, reqs, ret) ==
    /\ last' = Last(op, args, Pre, reqs, ret, None)
    /\ UNCHANGED <<elem, kind, mapped, constructed, _dvrs, _cloud_key, _xmltv_key,
                   resolved, threads, toolVars>>

Lookup ==
    /\ ServerIdle
    /\ \E tag \in RegistryTags, etype \in TypeAttributes :
        Called("lookup", <<Str(tag), etype>>, <<>>, lookup(tag, etype))

Query ==
    /\ ServerIdle
    /\ \E key \in QueryPaths, ans \in ServerAnswers("Directory", "title") :
        Called("query", <<Str(key)>>, <<Req("GET", key, ans)>>, query(key, ans))

FetchItem ==
    /\ ServerIdle
    /\ \E ratingKey \in RatingKeys, ans \in AnswersOf(SeqsUpTo(VideoElements, MaxDocLen)) :
        Called("fetchItem", <<PyInt(ratingKey)>>,
               <<Req("GET", MetadataPath(ratingKey), ans)>>,
               fetchItem(MetadataPath(ratingKey), ans))

Client ==
    /\ ServerIdle
    /\ \E name \in ClientNames, ans \in ServerAnswers("Server", "name") :
        Called("client", <<Str(name)>>, <<Req("GET", "/clients", ans)>>, client(name, ans))

Playlist ==
    /\ ServerIdle
    /\ \E title \in PlaylistTitles, ans \in ServerAnswers("Playlist", "title") :
        Called("playlist", <<Str(title)>>, <<Req("GET", "/playlists", ans)>>,
               playlist(title, ans))

InitServer ==
    /\ elem = Element("None", <<>>, <<>>)
    /\ kind = "PlexServer"
    /\ mapped = NotMapped
    /\ constructed = FALSE
    /\ _dvrs = Unset
    /\ _cloud_key = Unset
    /\ _xmltv_key = Unset
    /\ resolved = None
    /\ threads = NoThreads
    /\ ToolsIdle
    /\ last = Idle

NextServer ==
    \/ Lookup
    \/ Query
    \/ FetchItem
    \/ Client
    \/ Playlist
    \/ Return

SpecServer == InitServer /\ [][NextServer]_vars

----------------------------------------------------------------------------
(* Two callers access one lazy relationship of one LiveTV at the same time. *)
(* A caller runs the accessor's statements in order; a load or a store of   *)
(* an attribute of self is one step, and the steps of the two callers       *)
(* interleave freely                                                        *)

Callers == {1, 2}

Relationships == {"dvrs", "cloud_key", "xmltv_key"}

\* the field behind a relationship
FieldOf(rel) ==
    CASE rel = "dvrs" -> _dvrs
      [] rel = "cloud_key" -> _cloud_key
      [] rel = "xmltv_key" -> _xmltv_key

\* the field behind a relationship as __init__ leaves it
InitialFieldOf(rel) ==
    CASE rel = "dvrs" -> LiveTV__init__.self.dvrs
      [] rel = "cloud_key" -> LiveTV__init__.self.ck
      [] rel = "xmltv_key" -> LiveTV__init__.self.xk

LookupPathOf(rel) == IF rel = "cloud_key" THEN CloudPath ELSE XmltvPath

ThreadAnswers(rel) ==
    CASE rel = "dvrs" -> AnswersOf(SeqsUpTo(DvrElements, MaxDocLen))
      [] rel = "cloud_key" -> KeyAnswers("cloud")
      [] rel = "xmltv_key" -> KeyAnswers("xmltv")

\* where a caller stands after its fetch: with a value to store, at the
\* return of the field (except: pass), or out of the accessor with what it
\* returns or raises
Outcome(pc, local, ret) == [pc |-> pc, local |-> local, ret |-> ret]

\* self._dvrs = self.fetchItems('/livetv/dvrs') up to the store
DvrsFetched(items) ==
    IF IsRaise(items) THEN Outcome("done", None, items) ELSE Outcome("store", items, None)

\* data = self._parseXmlToDict(key=...) up to the store of the title
KeyFetched(data, title) ==
    IF ~Truthy(data) THEN Outcome("done", None, None)
    ELSE IF IsRaise(title) THEN Outcome("return", None, None)
    ELSE Outcome("store", title, None)

KeyParsed(data) == KeyFetched(data, SecondDirectoryTitle(data))

FetchStep(rel, ans) ==
    IF rel = "dvrs" THEN DvrsFetched(fetchItems("/livetv/dvrs", ans))
    ELSE KeyParsed(_parseXmlToDict(LookupPathOf(rel), ans))

\* a store that extends the cached list in place, which C16 rejects
StoredInPlace(field, value) ==
    IF field[1] = "list" /\ value[1] = "list" THEN List(field[2] \o value[2]) ELSE value

\* self.<field> = value: the field holds the value
Stored(field, value) == value

\* caller t moves to pc with local and ret; fetched is the log of the values
\* that complete fetches yielded
Moved(t, pc, local, ret, fetched) ==
    threads' = [threads EXCEPT !.pc[t] = pc, !.local[t] = local, !.ret[t] = ret,
                               !.fetched = fetched]

Fields == <<_dvrs, _cloud_key, _xmltv_key>>

\* if not self.<field>:
TCheck ==
    \E t \in Callers :
        /\ threads.pc[t] = "start"
        /\ Moved(t, IF Truthy(FieldOf(threads.rel)) THEN "return" ELSE "fetch",
                 None, None, threads.fetched)
        /\ UNCHANGED <<elem, kind, mapped, constructed, Fields, resolved, last, toolVars>>

\* the fetch, and what the caller makes of the answer
TFetch ==
    \E t \in Callers :
        /\ threads.pc[t] = "fetch"
        /\ \E ans \in ThreadAnswers(threads.rel) :
            Moved(t, FetchStep(threads.rel, ans).pc, FetchStep(threads.rel, ans).local,
                  FetchStep(threads.rel, ans).ret,
                  IF FetchStep(threads.rel, ans).pc = "store"
                  THEN threads.fetched \cup {FetchStep(threads.rel, ans).local}
                  ELSE threads.fetched)
        /\ UNCHANGED <<elem, kind, mapped, constructed, Fields, resolved, last, toolVars>>

\* self.<field> = <what was fetched>
TStore ==
    \E t \in Callers :
        /\ threads.pc[t] = "store"
        /\ _dvrs' = IF threads.rel = "dvrs" THEN Stored(_dvrs, threads.local[t]) ELSE _dvrs
        /\ _cloud_key' = IF threads.rel = "cloud_key"
                         THEN Stored(_cloud_key, threads.local[t]) ELSE _cloud_key
        /\ _xmltv_key' = IF threads.rel = "xmltv_key"
                         THEN Stored(_xmltv_key, threads.local[t]) ELSE _xmltv_key
        /\ Moved(t, "return", None, None, threads.fetched)
        /\ UNCHANGED <<elem, kind, mapped, constructed, resolved, last, toolVars>>

\* return self.<field>
TReturn ==
    \E t \in Callers :
        /\ threads.pc[t] = "return"
        /\ Moved(t, "done", None, FieldOf(threads.rel), threads.fetched)
        /\ UNCHANGED <<elem, kind, mapped, constructed, Fields, resolved, last, toolVars>>

InitThreads ==
    /\ elem = Element("None", <<>>, <<>>)
    /\ kind = "LiveTV"
    /\ mapped = NotMapped
    /\ constructed = TRUE
    /\ _dvrs = LiveTV__init__.self.dvrs
    /\ _cloud_key = LiveTV__init__.self.ck
    /\ _xmltv_key = LiveTV__init__.self.xk
    /\ resolved = None
    /\ \E rel \in Relationships :
        threads = [rel |-> rel, pc |-> [t \in Callers |-> "start"],
                   local |-> [t \in Callers |-> None], ret |-> [t \in Callers |-> None],
                   fetched |-> {}]
    /\ last = Idle
    /\ ToolsIdle

NextThreads ==
    \/ TCheck
    \/ TFetch
    \/ TStore
    \/ TReturn

SpecThreads == InitThreads /\ [][NextThreads]_vars

----------------------------------------------------------------------------
(* tools/plex-bootstraptest.py, from the wait for the server on. The main  *)
(* thread runs the statements in order; alert_callback runs in the thread  *)
(* of the alert listener, between any two steps of the main thread         *)

\* largest --bootstrap-timeout, in seconds
MaxTimeout == 2
\* most seconds a sleep lasts beyond what was asked
MaxLag == 0
\* number of media files the tool lays out for one section
FilesPerSection == 1
\* most entries of one timeline message
MaxBatch == 2

\* the command lines: argparse gives every flag independently
Options ==
    [bootstrap_timeout : 0..MaxTimeout, accept_eula : BOOLEAN, with_movies : BOOLEAN,
     with_shows : BOOLEAN, with_music : BOOLEAN, with_photos : BOOLEAN,
     with_photo_album : BOOLEAN]

\* how the process ended: exit(n), or an exception nobody caught
Exit(n) == <<"exit", n>>
Raised(exc) == <<"raised", exc>>

\* the server that device.connect() returned
Connected == <<"obj", "PlexServer">>

\* time() - start_time < opts.bootstrap_timeout, with <= for <, which C22 rejects
InTime_Inclusive(t, start, timeout) == t - start <= timeout

\* time() - start_time < opts.bootstrap_timeout
InTime(t, start, timeout) == t - start < timeout

\* start_time = time(). The tool reads the clock only to take its distance
\* from start_time, so the model counts the seconds from this statement on
Started == start_time' = 0 /\ now' = 0

\* the values time() may have when sleep(n) returns
Slept(n) == {now + n + d : d \in 0..MaxLag}

\* the calls of the try block of the server wait, in order; the block ends at
\* the first that raises
ConnectCalls(accept_eula) ==
    IF accept_eula THEN <<"device", "connect", "settings.set", "settings.save">>
    ELSE <<"device", "connect">>

\* the try block of the server wait when the call raisedAt raises (None: no
\* call raises): the server it leaves in the variable, whether the EULA is
\* saved as accepted, and whether the except clause runs
Attempt(accept_eula, raisedAt, saved) ==
    [server |-> IF raisedAt \in {Str("device"), Str("connect")} THEN None ELSE Connected,
     saved |-> IF accept_eula /\ raisedAt = None THEN TRUE ELSE saved,
     failed |-> raisedAt # None]

\* the sections the tool prepares, in the order of lines 164-262
SectionNames == <<"Movies", "TV Shows", "Music", "Photos">>

Wanted(o) ==
    <<o.with_movies, o.with_shows, o.with_music, o.with_photos>>

RECURSIVE Selected(_, _)
Selected(o, i) ==
    IF i > Len(SectionNames) THEN <<>>
    ELSE (IF Wanted(o)[i] THEN <<SectionNames[i]>> ELSE <<>>) \o Selected(o, i + 1)

\* the sections whose files are counted into expected_media_count
Counted == {"Movies", "TV Shows", "Music"}

\* expected_media_count after line 262
ExpectedMediaCount(o) ==
    FilesPerSection * Cardinality({i \in 1..3 : Wanted(o)[i]})

\* the outcome of one library.add
Call(section, outcome) == [section |-> section, outcome |-> outcome]

\* the sections the server has, in the order of their creation
RECURSIVE Added(_)
Added(cs) ==
    IF Len(cs) = 0 THEN <<>>
    ELSE (IF Head(cs).outcome = "ok" THEN <<Head(cs).section>> ELSE <<>>) \o Added(Tail(cs))

Range(q) == {q[i] : i \in 1..Len(q)}

\* what library.add answers: it returns, or raises BadRequest with the
\* message of a server that is still starting up, or with another message
AddOutcomes == {"ok", "starting", "other"}

StartingUp == "the server is still starting up. Please retry later"

\* str(e) of the BadRequest of an outcome
MessageOf(outcome) == IF outcome = "starting" THEN StartingUp ELSE "(400) bad_request"

\* an except clause that retries after every BadRequest, which C24 rejects
Retried_Always(message) == TRUE

\* the except clause of lines 296-300: whether the loop goes on
Retried(message) == message = StartingUp

\* one entry of a timeline message
Entry(identifier, state, type) == [identifier |-> identifier, state |-> state, type |-> type]

\* the entries the server sends, in an order of the model: of a processed
\* movie, episode, track or photo, of a processed show, and of a movie still
\* in the queue
Entries ==
    <<Entry("com.plexapp.plugins.library", 5, "movie"),
      Entry("com.plexapp.plugins.library", 5, "episode"),
      Entry("com.plexapp.plugins.library", 5, "track"),
      Entry("com.plexapp.plugins.library", 5, "photo"),
      Entry("com.plexapp.plugins.library", 5, "show"),
      Entry("com.plexapp.plugins.library", 1, "movie")>>

\* the lists of entries of one timeline message; alert_callback counts the
\* entries whatever their order, so one order of each list is enough
Batches ==
    {[i \in 1..Len(b) |-> Entries[b[i]]] :
        b \in {b \in UNION {[1..n -> 1..Len(Entries)] : n \in 1..MaxBatch} :
                  \A i \in 1..(Len(b) - 1) : b[i] <= b[i + 1]}}

\* the condition of lines 277-279; a type stands for its number in SEARCHTYPES
Processed(entry) ==
    /\ entry.identifier = "com.plexapp.plugins.library"
    /\ entry.state = 5
    /\ entry.type \in {"movie", "episode", "track", "photo"}

\* the entries of a message that tell of a processed file of the kind
Telling(entries, types) ==
    Cardinality({i \in 1..Len(entries) : Processed(entries[i]) /\ entries[i].type \in types})

\* the section that holds the files of a type
SectionOf(type) ==
    CASE type = "movie" -> "Movies"
      [] type = "episode" -> "TV Shows"
      [] type = "track" -> "Music"
      [] type = "photo" -> "Photos"
      [] OTHER -> "Movies"

\* whether the server may send the entries q when it has the sections have:
\* a timeline message tells of files of sections the server has, of each
\* file once
Sendable(q, have) ==
    /\ \A i \in 1..Len(q) : SectionOf(q[i].type) \in have
    /\ announced.counted + Telling(q, {"movie", "episode", "track"})
          <= FilesPerSection * Cardinality(have \cap Counted)
    /\ announced.photos + Telling(q, {"photo"})
          <= FilesPerSection * Cardinality(have \cap {"Photos"})

\* the messages the listener may hand to alert_callback
MessagesWith(have) ==
    {[type |-> "timeline", TimelineEntry |-> q] : q \in {q \in Batches : Sendable(q, have)}}
    \cup {[type |-> "activity", TimelineEntry |-> <<>>]}

\* processed_media when alert_callback has gone through the entries of data
Counting(count, data) ==
    IF data.type = "timeline"
    THEN count + Telling(data.TimelineEntry, {"movie", "episode", "track", "photo"})
    ELSE count

\* finished after the test of line 282
Reached(count, expected, was) == IF count = expected THEN TRUE ELSE was

\* the condition of the metadata wait, line 314
Scanning(fin, album, o) ==
    ~fin /\ ~(album /\ o.with_photos /\ o.with_photo_album)

\* the main thread goes to the statement next
Goto(next) == at' = next

\* the process ends
Ends(how) == exit_status' = how /\ at' = "exited"

Says(message) == printed' = printed \cup {message}

\* line 131: while not server and (time() - start_time < opts.bootstrap_timeout)
ServerWait ==
    /\ at = "server_wait"
    /\ Goto(IF server = None /\ InTime(now, start_time, opts.bootstrap_timeout)
            THEN "connect" ELSE "server_check")
    /\ UNCHANGED <<livetvVars, now, bootVars, wait>>

\* lines 132-137: the try block
Connect ==
    /\ at = "connect"
    /\ \E raisedAt \in {None} \cup {Str(c) : c \in Range(ConnectCalls(opts.accept_eula))} :
        /\ server' = Attempt(opts.accept_eula, raisedAt, acceptedEULA).server
        /\ acceptedEULA' = Attempt(opts.accept_eula, raisedAt, acceptedEULA).saved
        /\ Goto(IF Attempt(opts.accept_eula, raisedAt, acceptedEULA).failed
                THEN "connect_failed" ELSE "server_wait")
    /\ UNCHANGED <<livetvVars, now, opts, start_time, downloaded, expected_media_count,
                   sections, first_section, success, calls, notifier, finished,
                   processed_media, announced, album_created, printed, exit_status, wait>>

\* lines 138-140: print(e); sleep(1)
ConnectFailed ==
    /\ at = "connect_failed"
    /\ now' \in Slept(1)
    /\ Goto("server_wait")
    /\ UNCHANGED <<livetvVars, bootVars, wait>>

\* lines 142-147
ServerCheck ==
    /\ at = "server_check"
    /\ IF server = None
       THEN Says("Server did not appear in your account") /\ Ends(Exit(1))
       ELSE Says("Ok, I got the server instance") /\ Goto("media") /\ UNCHANGED exit_status
    /\ UNCHANGED <<livetvVars, now, opts, start_time, server, acceptedEULA, downloaded,
                   expected_media_count, sections, first_section, success, calls, notifier,
                   finished, processed_media, announced, album_created, wait>>

\* lines 149-262: the media is downloaded and laid out. get_movie_path reads
\* movies_path, which only the movies block assigns: the copy of an episode
\* that is not there yet raises NameError when the movies are left out
Media ==
    /\ at = "media"
    /\ \E fresh \in BOOLEAN :
        IF fresh /\ opts.with_shows /\ ~opts.with_movies
        THEN /\ Ends(Raised("NameError"))
             /\ downloaded' = TRUE
             /\ UNCHANGED <<expected_media_count, sections>>
        ELSE /\ Goto("library")
             /\ downloaded' = (Selected(opts, 1) # <<>>)
             /\ expected_media_count' = ExpectedMediaCount(opts)
             /\ sections' = Selected(opts, 1)
             /\ UNCHANGED exit_status
    /\ UNCHANGED <<livetvVars, now, opts, start_time, server, acceptedEULA, first_section,
                   success, calls, notifier, finished, processed_media, announced,
                   album_created, printed, wait>>

\* lines 264-291: the listener is started and the first section taken
Library ==
    /\ at = "library"
    /\ IF sections = <<>>
       THEN /\ Goto("ready")
            /\ UNCHANGED <<finished, processed_media, notifier, first_section, sections,
                           success, start_time, now, printed>>
       ELSE /\ Says("Ok, got the media")
            /\ finished' = (expected_media_count = 0)
            /\ processed_media' = 0
            /\ notifier' = TRUE
            /\ first_section' = Str(Head(sections))
            /\ sections' = Tail(sections)
            /\ success' = FALSE
            /\ Started
            /\ Goto("first_wait")
    /\ UNCHANGED <<livetvVars, opts, server, acceptedEULA, downloaded,
                   expected_media_count, calls, announced, album_created, exit_status, wait>>

\* line 292: while not success and (time() - start_time < opts.bootstrap_timeout)
FirstWait ==
    /\ at = "first_wait"
    /\ Goto(IF ~success /\ InTime(now, start_time, opts.bootstrap_timeout)
            THEN "add_first" ELSE "first_check")
    /\ UNCHANGED <<livetvVars, now, bootVars, wait>>

\* lines 293-300: library.add(**first_section) and the except clause up to
\* the sleep
AddFirst ==
    /\ at = "add_first"
    /\ \E outcome \in AddOutcomes :
        /\ calls' = Append(calls, Call(first_section[2], outcome))
        /\ IF outcome = "ok" THEN success' = TRUE /\ Goto("first_wait") /\ UNCHANGED exit_status
           ELSE IF Retried(MessageOf(outcome))
           THEN Goto("retry_sleep") /\ UNCHANGED <<success, exit_status>>
           ELSE Ends(Raised("BadRequest")) /\ UNCHANGED success
    /\ UNCHANGED <<livetvVars, now, opts, start_time, server, acceptedEULA, downloaded,
                   expected_media_count, sections, first_section, notifier, finished,
                   processed_media, announced, album_created, printed, wait>>

\* line 298: sleep(1)
RetrySleep ==
    /\ at = "retry_sleep"
    /\ now' \in Slept(1)
    /\ Goto("first_wait")
    /\ UNCHANGED <<livetvVars, bootVars, wait>>

\* lines 302-304
FirstCheck ==
    /\ at = "first_check"
    /\ IF ~success
       THEN Says("Something went wrong :(") /\ Ends(Exit(1))
       ELSE Goto("add_rest") /\ UNCHANGED <<printed, exit_status>>
    /\ UNCHANGED <<livetvVars, now, opts, start_time, server, acceptedEULA, downloaded,
                   expected_media_count, sections, first_section, success, calls, notifier,
                   finished, processed_media, announced, album_created, wait>>

\* lines 306-307: one turn of the for loop. The loop stands at the section
\* after those it has added, which with the first one are Len(Added(calls))
AddRest ==
    /\ at = "add_rest"
    /\ IF Len(Added(calls)) > Len(sections)
       THEN Goto("created") /\ UNCHANGED <<calls, exit_status>>
       ELSE \E outcome \in AddOutcomes :
              /\ calls' = Append(calls, Call(sections[Len(Added(calls))], outcome))
              /\ IF outcome = "ok" THEN Goto("add_rest") /\ UNCHANGED exit_status
                 ELSE Ends(Raised("BadRequest"))
    /\ UNCHANGED <<livetvVars, now, opts, start_time, server, acceptedEULA, downloaded,
                   expected_media_count, sections, first_section, success, notifier,
                   finished, processed_media, announced, album_created, printed, wait>>

\* lines 309-313
Created ==
    /\ at = "created"
    /\ Says("Sections created, almost done!")
    /\ album_created' = FALSE
    /\ Started
    /\ Goto("scan_wait")
    /\ UNCHANGED <<livetvVars, opts, server, acceptedEULA, downloaded,
                   expected_media_count, sections, first_section, success, calls, notifier,
                   finished, processed_media, announced, exit_status, wait>>

\* line 314: while not finished and not (album_created and opts.with_photos
\* and opts.with_photo_album)
ScanWait ==
    /\ at = "scan_wait"
    /\ Goto(IF Scanning(finished, album_created, opts) THEN "scan" ELSE "ready")
    /\ UNCHANGED <<livetvVars, now, bootVars, wait>>

\* lines 315-324: one turn of the metadata wait; listed tells whether the
\* Photos section lists as many photos as were laid out
Scan ==
    /\ at = "scan"
    /\ IF ~InTime(now, start_time, opts.bootstrap_timeout)
       THEN /\ Says("Metadata scan takes too long")
            /\ Ends(Exit(1))
            /\ UNCHANGED <<album_created, now>>
       ELSE /\ \E listed \in BOOLEAN :
                IF ~album_created /\ opts.with_photos /\ opts.with_photo_album /\ listed
                THEN album_created' = TRUE /\ Says("Photo album created")
                ELSE UNCHANGED <<album_created, printed>>
            /\ now' \in Slept(3)
            /\ Goto("scan_wait")
            /\ UNCHANGED exit_status
    /\ UNCHANGED <<livetvVars, opts, start_time, server, acceptedEULA, downloaded,
                   expected_media_count, sections, first_section, success, calls, notifier,
                   finished, processed_media, announced, wait>>

\* lines 326-329
Ready ==
    /\ at = "ready"
    /\ Says("Server is ready to use!")
    /\ Ends(Exit(0))
    /\ UNCHANGED <<livetvVars, now, opts, start_time, server, acceptedEULA, downloaded,
                   expected_media_count, sections, first_section, success, calls, notifier,
                   finished, processed_media, announced, album_created, wait>>

\* lines 273-283: the listener hands one message to alert_callback
AlertCallback ==
    /\ notifier
    /\ at # "exited"
    /\ \E have \in {Range(Added(calls))} : \E data \in MessagesWith(have) :
        /\ processed_media' = Counting(processed_media, data)
        /\ finished' = Reached(Counting(processed_media, data), expected_media_count,
                               finished)
        /\ announced' =
              [counted |-> announced.counted
                              + Telling(data.TimelineEntry, {"movie", "episode", "track"}),
               photos |-> announced.photos + Telling(data.TimelineEntry, {"photo"})]
    /\ UNCHANGED <<livetvVars, at, now, opts, start_time, server, acceptedEULA, downloaded,
                   expected_media_count, sections, first_section, success, calls, notifier,
                   album_created, printed, exit_status, wait>>

\* the steps of the main thread
Main ==
    \/ ServerWait
    \/ Connect
    \/ ConnectFailed
    \/ ServerCheck
    \/ Media
    \/ Library
    \/ FirstWait
    \/ AddFirst
    \/ RetrySleep
    \/ FirstCheck
    \/ AddRest
    \/ Created
    \/ ScanWait
    \/ Scan
    \/ Ready

InitBootstrap ==
    /\ elem = Element("None", <<>>, <<>>)
    /\ kind = "LiveTV"
    /\ mapped = NotMapped
    /\ constructed = FALSE
    /\ _dvrs = Unset
    /\ _cloud_key = Unset
    /\ _xmltv_key = Unset
    /\ resolved = None
    /\ threads = NoThreads
    /\ last = Idle
    /\ at = "server_wait"
    /\ now = 0
    /\ \E o \in Options : BootStarts(o)
    /\ wait = NoWait

NextBootstrap ==
    \/ Main
    \/ AlertCallback

SpecBootstrap == InitBootstrap /\ [][NextBootstrap]_vars

\* the main thread is a running process: a statement it stands at is run in
\* the end
SpecBootstrapFair == SpecBootstrap /\ WF_vars(Main)

----------------------------------------------------------------------------
(* tests/conftest.py: wait_until(condition_function, delay, timeout) *)

\* largest timeout of a call, in ticks of the clock
MaxWait == 2
\* largest delay of a call, in ticks of the clock
MaxDelay == 1
\* most evaluations of the condition in one call of the model
MaxEvals == 4

\* what a condition function may return; 0 and 1 are False and True too
ConditionValues == {None, PyInt(0), List(<<>>), PyInt(1), Str("ready")}

\* the locals of a call and, in evals, the values the condition produced
Waiting(delay, timeout, start, ready, retries, evals, ret) ==
    [delay |-> delay, timeout |-> timeout, start |-> start, ready |-> ready,
     retries |-> retries, evals |-> evals, ret |-> ret]

\* line 380: while not ready and time.time() - start < timeout
Unready(ready, t, start, timeout) == ~Truthy(ready) /\ t - start < timeout

\* lines 385-390 without the assert, which C27 rejects
Asserted_Unchecked(ready) == ready

\* lines 385-390: assert ready; return ready
Asserted(ready) ==
    IF Truthy(ready) THEN ready ELSE Raise("AssertionError", "Wait timeout", 0)

\* lines 377-379: the clock is read and the condition evaluated
WaitStart ==
    /\ at = "wait_start"
    /\ \E value \in ConditionValues :
        wait' = [wait EXCEPT !.start = now, !.ready = value, !.retries = 1,
                             !.evals = <<value>>]
    /\ now' \in {now + d : d \in 0..MaxLag}
    /\ at' = "wait_test"
    /\ UNCHANGED <<livetvVars, bootVars>>

\* line 380
WaitTest ==
    /\ at = "wait_test"
    /\ at' = IF Unready(wait.ready, now, wait.start, wait.timeout)
             THEN "wait_again" ELSE "wait_assert"
    /\ UNCHANGED <<livetvVars, now, bootVars, wait>>

\* lines 381-383: the body of the loop
WaitAgain ==
    /\ at = "wait_again"
    /\ Len(wait.evals) < MaxEvals
    /\ \E value \in ConditionValues :
        wait' = [wait EXCEPT !.ready = value, !.retries = wait.retries + 1,
                             !.evals = Append(wait.evals, value)]
    /\ now' \in {now + wait.delay + d : d \in 0..MaxLag}
    /\ at' = "wait_test"
    /\ UNCHANGED <<livetvVars, bootVars>>

\* lines 385-390
WaitAssert ==
    /\ at = "wait_assert"
    /\ wait' = [wait EXCEPT !.ret = Asserted(wait.ready)]
    /\ at' = "wait_done"
    /\ UNCHANGED <<livetvVars, now, bootVars>>

InitWait ==
    /\ elem = Element("None", <<>>, <<>>)
    /\ kind = "LiveTV"
    /\ mapped = NotMapped
    /\ constructed = FALSE
    /\ _dvrs = Unset
    /\ _cloud_key = Unset
    /\ _xmltv_key = Unset
    /\ resolved = None
    /\ threads = NoThreads
    /\ last = Idle
    /\ at = "wait_start"
    /\ now = 0
    /\ BootStarts(NoOpts)
    /\ \E delay \in 0..MaxDelay, timeout \in 0..MaxWait :
        wait = Waiting(delay, timeout, 0, Unset, 0, <<>>, Unset)

NextWait ==
    \/ WaitStart
    \/ WaitTest
    \/ WaitAgain
    \/ WaitAssert

SpecWait == InitWait /\ [][NextWait]_vars

----------------------------------------------------------------------------
(* Properties *)

Success(req) == req.status \in {200, 201, 204}

LookupPaths == {CloudPath, XmltvPath}

\* the call issued requests and each was answered by a success with an
\* empty MediaContainer
EmptyAnswered ==
    /\ Len(last.reqs) > 0
    /\ \A i \in 1..Len(last.reqs) : Success(last.reqs[i]) /\ Len(last.reqs[i].body) = 0

\* the call asked every provider it holds a key of for its listing
ListingsRequested ==
    Cardinality({i \in 1..Len(last.reqs) : last.reqs[i].path \notin LookupPaths})
        = Cardinality({k \in {_cloud_key, _xmltv_key} : Truthy(k)})

\* C1: once an access of dvrs has returned, every later access of dvrs issues
\* no fetch of /livetv/dvrs and returns the list the first access returned, so
\* that /livetv/dvrs is fetched exactly once whatever list that fetch returned
C1_DvrsFetchedOnce ==
    (last.op = "dvrs" /\ ~IsNone(last.pre.resolved))
        => (Len(last.reqs) = 0 /\ last.ret = last.pre.resolved)

\* a second access of dvrs, after a first that returned the empty list,
\* fetched again and returned another list
C1_Witness ==
    /\ last.op = "dvrs"
    /\ last.pre.resolved[1] = "list"
    /\ Len(last.pre.resolved[2]) = 0
    /\ Len(last.reqs) = 1
    /\ last.ret[1] = "list"
    /\ Len(last.ret[2]) > 0

\* C2: a call of cloud_key, xmltv_key, dvrs, hubs, movies or shows one of whose
\* requests was answered with a status that is no success raises a failure that
\* carries the url and the status of that request; it returns no value
C2_FetchFailureRaised ==
    last.op \in {"cloud_key", "xmltv_key", "dvrs", "hubs", "movies", "shows"}
        => \A i \in 1..Len(last.reqs) :
              ~Success(last.reqs[i])
                  => /\ IsRaise(last.ret)
                     /\ last.ret[2].url = last.reqs[i].path
                     /\ last.ret[2].status = last.reqs[i].status

\* cloud_key answered with 404 returned None
C2_Witness ==
    /\ last.op = "cloud_key"
    /\ Len(last.reqs) = 1
    /\ last.reqs[1].status = 404
    /\ IsNone(last.ret)

\* C3: a call of dvrs, sessions, recordings, scheduled, hubs, movies or shows
\* whose endpoints all answered with a success and an empty MediaContainer
\* returns the empty list, and does not raise
C3_EmptyContainerEmptyList ==
    (/\ last.op \in {"dvrs", "sessions", "recordings", "scheduled", "hubs", "movies", "shows"}
     /\ EmptyAnswered
     /\ last.op \in {"hubs", "movies", "shows"} => ListingsRequested)
        => last.ret = List(<<>>)

C3_Witness ==
    /\ last.op = "movies"
    /\ EmptyAnswered
    /\ Len(last.reqs) = 2
    /\ last.reqs[1].path = "/cloud.guide2/grid?type=1"
    /\ last.ret = List(<<>>)

\* the default a field holds when its attribute is missing
DefaultOf(cls, field) == IF cls = "DVRDevice" /\ field = "key" THEN Str("") ELSE None

\* C4: _loadData of every registered livetv kind completes without raising
\* for every subset of attributes present, and each field whose attribute is
\* missing holds its default (None, or '' for DVRDevice.key)
C4_LoadDataTotal ==
    mapped # NotMapped
        => /\ ~IsRaise(mapped)
           /\ \A i \in 1..Len(RowsOf(kind)) :
                 RowsOf(kind)[i].attr \notin DOMAIN elem.attrib
                     => mapped[2].f[RowsOf(kind)[i].field] = DefaultOf(kind, RowsOf(kind)[i].field)

\* _loadData of Recording raised AttributeError on an element without attributes
C4_Witness ==
    /\ kind = "Recording"
    /\ DOMAIN elem.attrib = {}
    /\ mapped # NotMapped
    /\ IsRaise(mapped)
    /\ mapped[2].exc = "AttributeError"

\* the elements of a document that map, each mapped on its own, in order
RECURSIVE MappedSiblings(_)
MappedSiblings(es) ==
    IF Len(es) = 0 THEN <<>>
    ELSE (IF IsRaise(mapElement(Head(es))) THEN <<>> ELSE <<mapElement(Head(es))>>)
             \o MappedSiblings(Tail(es))

C6_SecondDirectoryTitle ==
    (/\ last.op \in {"cloud_key", "xmltv_key"}
     /\ Len(last.reqs) = 1
     /\ Success(last.reqs[1])
     /\ Len(last.reqs[1].body) >= 2)
        => last.ret = dict_get(last.reqs[1].body[2].attrib, "title", None)

C6_Witness ==
    /\ last.op = "cloud_key"
    /\ Len(last.reqs) = 1
    /\ Len(last.reqs[1].body) = 2
    /\ "title" \in DOMAIN last.reqs[1].body[1].attrib
    /\ last.ret = Str("cloud.guide2")

\* the path of the claim: /<key>/grid?type=<grid_type>, then the filter of
\* each bound that is given
GridPath(key, grid_type, beginsAt, endsAt) ==
    "/" \o key \o "/grid?type=" \o ToString(grid_type)
        \o (IF IsNone(beginsAt) THEN ""
            ELSE "&beginsAt%3C=" \o ToString(beginsAt[2].epoch))
        \o (IF IsNone(endsAt) THEN ""
            ELSE "&endsAt%3E=" \o ToString(endsAt[2].epoch))

\* C7: _guide_items(key, grid_type, beginsAt, endsAt) fetches the path of the
\* claim for each of the four combinations of bounds, and returns the items
\* fetched
C7_GuideItemsPath ==
    last.op = "_guide_items"
        => /\ Len(last.reqs) = 1
           /\ last.reqs[1].path
                = GridPath(last.args[1][2], last.args[2][2], last.args[3], last.args[4])
           /\ Success(last.reqs[1]) => last.ret = List(findItems(last.reqs[1].body))

\* _guide_items with beginsAt given raised ValueError and fetched nothing
C7_Witness ==
    /\ last.op = "_guide_items"
    /\ ~IsNone(last.args[3])
    /\ Len(last.reqs) = 0
    /\ IsRaise(last.ret)
    /\ last.ret[2].exc = "ValueError"

\* C8: constructing a LiveTV and running _loadData of a livetv kind issue no
\* request, and right after construction _dvrs is empty and both keys are None
C8_MappingIssuesNoRequest ==
    /\ last.op \in {"_loadData", "__init__"} => Len(last.reqs) = 0
    /\ last.op = "__init__"
          => _dvrs = List(<<>>) /\ IsNone(_cloud_key) /\ IsNone(_xmltv_key)

C8_Witness ==
    constructed /\ last.op = "__init__" /\ _dvrs = List(<<>>)

\* the value of an attribute under the coercion declared for the field
Coerced(conv, text) ==
    CASE conv = "int" -> PyInt(DigitsToNat(CharsOf(text)))
      [] conv = "datetime" -> Datetime(DigitsToNat(CharsOf(text)), 0)
      [] OTHER -> Str(text)

WellFormed(e) == \A a \in DOMAIN e.attrib : IsDigits(CharsOf(e.attrib[a]))

\* C9: for a well-formed element of a registered livetv kind with all its
\* attributes present, _loadData yields an object each of whose fields equals
\* the value of its attribute under the declared coercion
C9_FieldsEqualAttributes ==
    (/\ mapped # NotMapped
     /\ DOMAIN elem.attrib = AttrsOf(kind)
     /\ WellFormed(elem))
        => /\ ~IsRaise(mapped)
           /\ \A i \in 1..Len(RowsOf(kind)) :
                 mapped[2].f[RowsOf(kind)[i].field]
                    = Coerced(RowsOf(kind)[i].conv, elem.attrib[RowsOf(kind)[i].attr])

\* _loadData of ScheduledRecording raised on a well-formed element with all
\* its attributes
C9_Witness ==
    /\ kind = "ScheduledRecording"
    /\ DOMAIN elem.attrib = AttrsOf(kind)
    /\ WellFormed(elem)
    /\ mapped # NotMapped
    /\ IsRaise(mapped)

Items(v) == {v[2][i] : i \in 1..Len(v[2])}

\* C10: what guide(beginsAt, endsAt) returns contains every item that
\* movies(beginsAt, endsAt) returns and every item that shows(beginsAt, endsAt)
\* returns
C10_GuideHoldsMoviesAndShows ==
    (/\ last.op = "guide"
     /\ ~IsRaise(last.ret)
     /\ ~IsRaise(last.ref[2].movies)
     /\ ~IsRaise(last.ref[2].shows))
        => /\ Items(last.ref[2].movies) \subseteq Items(last.ret)
           /\ Items(last.ref[2].shows) \subseteq Items(last.ret)

\* guide returned without an item that shows returns
C10_Witness ==
    /\ last.op = "guide"
    /\ ~IsRaise(last.ret)
    /\ ~IsRaise(last.ref[2].shows)
    /\ Items(last.ref[2].shows) # {}
    /\ ~(Items(last.ref[2].shows) \subseteq Items(last.ret))

\* C11: a registry lookup of (tag, type attribute) returns the class registered
\* for the exact pair when there is one, otherwise the class registered for
\* the tag alone when there is one, otherwise it fails with UnknownType; a
\* Directory of type channel resolves to IPTVChannel and a Dvr to DVR
C11_RegistryLookup ==
    last.op = "lookup"
        => LET tag == last.args[1][2]
               etype == last.args[2]
               exact == IF IsNone(etype) THEN tag ELSE tag \o "." \o etype[2]
           IN  /\ IF ~IsNone(etype) /\ exact \in DOMAIN PLEXOBJECTS
                  THEN last.ret = Str(PLEXOBJECTS[exact])
                  ELSE IF tag \in DOMAIN PLEXOBJECTS
                  THEN last.ret = Str(PLEXOBJECTS[tag])
                  ELSE IsRaise(last.ret) /\ last.ret[2].exc = "UnknownType"
               /\ (tag = "Directory" /\ etype[1] = "str" /\ etype[2] = "channel")
                      => last.ret = Str("IPTVChannel")
               /\ tag = "Dvr" => last.ret = Str("DVR")

C11_Witness ==
    /\ last.op = "lookup"
    /\ last.args = <<Str("Directory"), Str("channel")>>
    /\ last.ret = Str("IPTVChannel")

\* the element has no registered class
Unregistered(e) == IsRaise(lookup(e.tag, dict_get(e.attrib, "type", None)))

\* the object is the generic one of the element: its tag and its attributes
GenericOf(o, e) ==
    /\ o[2].cls = "PlexObject"
    /\ o[2].tag = e.tag
    /\ o[2].f = [a \in DOMAIN e.attrib |-> Str(e.attrib[a])]

\* C12: mapping an element without a registered class does not fail: the
\* result of the fetch holds a generic object with the element's tag and
\* attributes, and the other elements of the document that map are in it too
C12_UnknownTypeGeneric ==
    (/\ last.op \in {"dvrs", "sessions", "recordings", "scheduled", "_guide_items"}
     /\ Len(last.reqs) = 1
     /\ Success(last.reqs[1]))
        => /\ ~IsRaise(last.ret)
           /\ \A i \in 1..Len(last.reqs[1].body) :
                 LET e == last.reqs[1].body[i]
                 IN  IF Unregistered(e)
                     THEN \E j \in 1..Len(last.ret[2]) : GenericOf(last.ret[2][j], e)
                     ELSE IsRaise(mapElement(e)) \/ mapElement(e) \in Items(last.ret)

C12_Witness ==
    /\ last.op = "scheduled"
    /\ Success(last.reqs[1])
    /\ Len(last.reqs[1].body) = 2
    /\ last.reqs[1].body[1].tag = "Playlist"
    /\ last.reqs[1].body[2].tag = "Video"
    /\ Len(last.ret[2]) = 2
    /\ GenericOf(last.ret[2][1], last.reqs[1].body[1])
    /\ last.ret[2][2][2].cls = "Movie"

\* every element of the document maps
AllMap(body) == \A i \in 1..Len(body) : ~IsRaise(mapElement(body[i]))

\* C13: the list returned for one fetched document keeps document order: for
\* the elements [A, B, C], each of which maps, it is [map(A), map(B), map(C)],
\* for dvrs, sessions, recordings, scheduled and _guide_items
C13_DocumentOrder ==
    (/\ last.op \in {"dvrs", "sessions", "recordings", "scheduled", "_guide_items"}
     /\ Len(last.reqs) = 1
     /\ Success(last.reqs[1])
     /\ AllMap(last.reqs[1].body))
        => /\ ~IsRaise(last.ret)
           /\ Len(last.ret[2]) = Len(last.reqs[1].body)
           /\ \A i \in 1..Len(last.ret[2]) : last.ret[2][i] = mapElement(last.reqs[1].body[i])

C13_Witness ==
    /\ last.op = "dvrs"
    /\ Len(last.reqs) = 1
    /\ Len(last.reqs[1].body) = MaxDocLen
    /\ last.reqs[1].body[1] # last.reqs[1].body[MaxDocLen]
    /\ Len(last.ret[2]) = MaxDocLen
    /\ last.ret[2][1] = mapElement(last.reqs[1].body[1])
    /\ last.ret[2][1] # last.ret[2][MaxDocLen]

\* the resource the last server call asked for does not exist on the server:
\* the path is answered with 404, or nothing of that name is listed
Missing ==
    LET req == last.reqs[1]
    IN  CASE last.op = "query" -> req.status = 404
          [] last.op = "fetchItem" -> req.status = 404 \/ Len(req.body) = 0
          [] last.op = "client" ->
                req.status = 404 \/ Len(Matching(req.body, "name", last.args[1][2])) = 0
          [] last.op = "playlist" ->
                req.status = 404 \/ Len(Matching(req.body, "title", last.args[1][2])) = 0

\* C14: a request of a top-level resource that does not exist on the server
\* (query of an unknown path, fetchItem of an unknown key, client or playlist
\* of an unknown name) raises NotFound; it returns no value
C14_MissingResourceNotFound ==
    (last.op \in {"query", "fetchItem", "client", "playlist"} /\ Missing)
        => IsRaise(last.ret) /\ last.ret[2].exc = "NotFound"

C14_Witness ==
    /\ last.op = "client"
    /\ last.args[1] = Str("<This-client-should-not-be-found>")
    /\ last.reqs[1].status = 200
    /\ Len(last.reqs[1].body) = MaxDocLen
    /\ IsRaise(last.ret)
    /\ last.ret[2].exc = "NotFound"

\* C15: delete() of the Recording of a MediaSubscription element with a key
\* issues exactly one request, a DELETE of /media/subscription/<key>, issues
\* no GET, and changes no field of the Recording
C15_DeleteOneRequest ==
    (last.op = "delete" /\ "key" \in DOMAIN elem.attrib)
        => /\ Len(last.reqs) = 1
           /\ last.reqs[1].method = "DELETE"
           /\ last.reqs[1].path = "/media/subscription/" \o elem.attrib["key"]
           /\ mapped = last.ref[2]
           /\ ~IsRaise(mapped)

\* delete() was asked of the Recording of an element with a key, and no
\* request was issued: the construction of the Recording had raised
C15_Witness ==
    /\ last.op = "delete"
    /\ "key" \in DOMAIN elem.attrib
    /\ Len(last.reqs) = 0
    /\ IsRaise(last.ret)
    /\ last.ret[2].exc = "AttributeError"

\* C16: with two callers accessing one relationship at the same time, in
\* every interleaving the cached field holds what __init__ left or the
\* complete value of one fetch, and each access that returns, returns the
\* complete value of one fetch (or None, for a key that no fetch yielded)
C16_ConcurrentAccessComplete ==
    /\ FieldOf(threads.rel) \in {InitialFieldOf(threads.rel)} \cup threads.fetched
    /\ \A t \in Callers :
          (threads.pc[t] = "done" /\ ~IsRaise(threads.ret[t]))
              => threads.ret[t] \in
                    threads.fetched \cup (IF threads.rel = "dvrs" THEN {} ELSE {None})

\* both callers fetched dvrs, the fetches yielded different lists, and each
\* caller returned one of them
C16_Witness ==
    /\ threads.rel = "dvrs"
    /\ \A t \in Callers : threads.pc[t] = "done"
    /\ Cardinality(threads.fetched) = 2
    /\ threads.ret[1] # threads.ret[2]
    /\ {threads.ret[1], threads.ret[2]} = threads.fetched
    /\ _dvrs \in threads.fetched

\* the number of requests the last call issued for the path
RequestsOf(path) == Cardinality({i \in 1..Len(last.reqs) : last.reqs[i].path = path})

\* C17: no fetch is retried: one access of cloud_key, xmltv_key, dvrs,
\* sessions, recordings or scheduled issues at most one request, also when
\* the request fails, and one call of hubs, movies or shows issues at most
\* one request of each of the two provider lookups
C17_NoRetry ==
    /\ last.op \in {"cloud_key", "xmltv_key", "dvrs", "sessions", "recordings", "scheduled"}
          => Len(last.reqs) <= 1
    /\ last.op \in {"hubs", "movies", "shows"}
          => RequestsOf(CloudPath) <= 1 /\ RequestsOf(XmltvPath) <= 1

\* movies() whose two lookups failed asked each provider once and no more
C17_Witness ==
    /\ last.op = "movies"
    /\ Len(last.reqs) = 2
    /\ last.reqs[1].path = CloudPath
    /\ last.reqs[1].status = 404
    /\ last.reqs[2].path = XmltvPath
    /\ last.reqs[2].status = 404

\* the operations of a LiveTV
Accessors ==
    {"cloud_key", "xmltv_key", "dvrs", "sessions", "hubs", "recordings", "scheduled",
     "_guide_items", "movies", "shows", "guide"}

\* the field held a fetched value that is not empty
Cached(field) == field[1] \in {"str", "list"} /\ Truthy(field)

\* C18: the cache is never invalidated by the object: an operation of a
\* LiveTV whose _cloud_key, _xmltv_key or _dvrs holds a fetched value that is
\* not empty leaves that field as it is and issues no request for it
C18_CacheNeverInvalidated ==
    last.op \in Accessors
        => /\ Cached(last.pre.ck)
                 => _cloud_key = last.pre.ck /\ RequestsOf(CloudPath) = 0
           /\ Cached(last.pre.xk)
                 => _xmltv_key = last.pre.xk /\ RequestsOf(XmltvPath) = 0
           /\ Cached(last.pre.dvrs)
                 => _dvrs = last.pre.dvrs /\ RequestsOf("/livetv/dvrs") = 0

\* hubs ran with the three fields cached: it listed both providers, looked
\* no key up and left the fields
C18_Witness ==
    /\ last.op = "hubs"
    /\ Cached(last.pre.ck)
    /\ Cached(last.pre.xk)
    /\ Cached(last.pre.dvrs)
    /\ Len(last.reqs) = 2
    /\ _cloud_key = last.pre.ck
    /\ _xmltv_key = last.pre.xk
    /\ _dvrs = last.pre.dvrs

\* the requests of the last call that are no key lookup
GridReqs == SelectSeq(last.reqs, LAMBDA r : r.path \notin LookupPaths)

\* the grid of a provider, when the instance holds the provider's key
GridPathOf(key, grid_type) ==
    IF Truthy(key) THEN <<"/" \o key[2] \o "/grid?type=" \o ToString(grid_type)>> ELSE <<>>

\* the items mapped from the documents of the requests, in the order of the
\* requests
RECURSIVE ItemsFetched(_)
ItemsFetched(reqs) ==
    IF Len(reqs) = 0 THEN <<>> ELSE findItems(Head(reqs).body) \o ItemsFetched(Tail(reqs))

\* C19: movies() returns the items of the cloud grid of type 1 followed by
\* those of the xmltv grid of type 1, each in fetched order, and shows() the
\* same with type 4; a provider whose key is None is asked for no grid and
\* contributes no item, so that without keys the result is the empty list
C19_CloudThenXmltv ==
    (/\ last.op \in {"movies", "shows"}
     /\ IsNone(last.args[1])
     /\ IsNone(last.args[2])
     /\ \A i \in 1..Len(GridReqs) : Success(GridReqs[i]))
        => /\ [i \in 1..Len(GridReqs) |-> GridReqs[i].path]
                 = GridPathOf(_cloud_key, GridTypeOf(last.op))
                      \o GridPathOf(_xmltv_key, GridTypeOf(last.op))
           /\ last.ret = List(ItemsFetched(GridReqs))

C19_Witness ==
    /\ last.op = "shows"
    /\ IsNone(last.args[1])
    /\ IsNone(last.args[2])
    /\ Len(GridReqs) = 2
    /\ ~IsRaise(last.ret)
    /\ Len(last.ret[2]) = 2
    /\ last.ret[2][1][2].f["key"] = Str("/cloud.guide2/grid?type=4#1")
    /\ last.ret[2][2][2].f["key"] = Str("/xmltv.guide2/grid?type=4#1")

\* the second Directory of the document has a title
SecondTitled(body) == Len(body) >= 2 /\ "title" \in DOMAIN body[2].attrib

\* the last call received, from the path, a response whose second Directory
\* is titled as the key
Received(path, key) ==
    \E i \in 1..Len(last.reqs) :
        /\ last.reqs[i].path = path
        /\ Success(last.reqs[i])
        /\ SecondTitled(last.reqs[i].body)
        /\ key = Str(last.reqs[i].body[2].attrib["title"])

\* what C20 says of one key: field is its value now, pre its value before the
\* last call, op the accessor of the key and path the lookup of its provider
KeyFromSecondTitle(field, pre, op, path) ==
    /\ IsNone(field) \/ field[1] = "str"
    /\ (last.op \in Accessors /\ field # pre) => Received(path, field)
    /\ (last.op = op /\ IsNone(pre)) => Len(last.reqs) = 1
    /\ (last.op = op /\ Len(last.reqs) = 1 /\ ~SecondTitled(last.reqs[1].body))
          => IsNone(last.ret) /\ IsNone(field)

\* C20: in every state _cloud_key (and likewise _xmltv_key) is None or the
\* title of the second Directory of a response received from the provider's
\* lookup; a lookup answered with fewer than two Directory elements, or with a
\* second Directory without a title, returns None without raising and leaves
\* the field None, and an access that finds the field None fetches
C20_KeyIsSecondTitle ==
    /\ KeyFromSecondTitle(_cloud_key, last.pre.ck, "cloud_key", CloudPath)
    /\ KeyFromSecondTitle(_xmltv_key, last.pre.xk, "xmltv_key", XmltvPath)

\* a lookup answered with one titled Directory returned None and left the
\* field None
C20_Witness ==
    /\ last.op = "xmltv_key"
    /\ Len(last.reqs) = 1
    /\ last.reqs[1].status = 200
    /\ Len(last.reqs[1].body) = 1
    /\ "title" \in DOMAIN last.reqs[1].body[1].attrib
    /\ IsNone(last.ret)
    /\ IsNone(_xmltv_key)

\* the path an accessor that caches nothing fetches
FixedPathOf(op) ==
    CASE op = "sessions" -> "/livetv/sessions"
      [] op = "recordings" -> "/media/subscriptions/scheduled"
      [] op = "scheduled" -> "/media/subscriptions"

\* C21: sessions, recordings and scheduled are not cached: every access
\* issues exactly one GET of its fixed path and leaves _dvrs, _cloud_key and
\* _xmltv_key as they were; an access of cloud_key leaves _xmltv_key and
\* _dvrs, and an access of dvrs leaves the two keys
C21_FrameEffects ==
    /\ last.op \in {"sessions", "recordings", "scheduled"}
          => /\ Len(last.reqs) = 1
             /\ last.reqs[1].method = "GET"
             /\ last.reqs[1].path = FixedPathOf(last.op)
             /\ _dvrs = last.pre.dvrs
             /\ _cloud_key = last.pre.ck
             /\ _xmltv_key = last.pre.xk
    /\ last.op = "cloud_key" => _xmltv_key = last.pre.xk /\ _dvrs = last.pre.dvrs
    /\ last.op = "dvrs" => _cloud_key = last.pre.ck /\ _xmltv_key = last.pre.xk

\* scheduled was accessed, with success, on a LiveTV that holds a list of
\* DVRs and the two keys
C21_Witness ==
    /\ last.op = "scheduled"
    /\ ~IsRaise(last.ret)
    /\ Cached(last.pre.dvrs)
    /\ Cached(last.pre.ck)
    /\ Cached(last.pre.xk)

\* the statements of the wait for the server, lines 131-140
ServerWaitLines == {"server_wait", "connect", "connect_failed"}

\* the attempt of the try block failed: no server came of it, or the EULA
\* that was to be accepted is not saved
AttemptFailed == server' = None \/ (opts.accept_eula /\ ~acceptedEULA')

\* C22: the wait for the server always ends. Past it the tool holds a
\* connected server, or it has exited with status 1 when the timeout had
\* elapsed, with no media downloaded and no section created; a failed attempt
\* is followed by a sleep of a second or more; and an attempt is made only
\* while there is no server and the timeout has not elapsed
C22_ServerWaitEnds ==
    /\ <>(at \notin ServerWaitLines)
    /\ [](at \notin ServerWaitLines \cup {"server_check"}
            => \/ server = Connected
               \/ /\ at = "exited"
                  /\ exit_status = Exit(1)
                  /\ ~(now - start_time < opts.bootstrap_timeout)
                  /\ ~downloaded
                  /\ calls = <<>>)
    /\ [][at = "connect" /\ AttemptFailed => at' = "connect_failed"]_vars
    /\ [][at = "connect_failed" => at' = "server_wait" /\ now' >= now + 1]_vars
    /\ [][at' = "connect" /\ at # "connect"
            => server = None /\ now - start_time < opts.bootstrap_timeout]_vars

\* the tool gave up after a failed attempt and a sleep: no server, status 1
C22_Witness ==
    /\ at = "exited"
    /\ server = None
    /\ exit_status = Exit(1)
    /\ opts.bootstrap_timeout > 0
    /\ now >= opts.bootstrap_timeout

\* C23: with --accept-eula the tool leaves the server wait with a server
\* only after acceptedEULA was set to True and saved on it: a run that has
\* printed 'Ok, I got the server instance' has accepted the EULA
C23_EulaAccepted ==
    (opts.accept_eula /\ "Ok, I got the server instance" \in printed) => acceptedEULA

\* the tool was to accept the EULA and went on with a connected server on
\* which the EULA is not saved as accepted
C23_Witness ==
    /\ opts.accept_eula
    /\ at = "media"
    /\ server = Connected
    /\ "Ok, I got the server instance" \in printed
    /\ ~acceptedEULA

\* the place of a section in the order movies, shows, music, photos
Position(section) ==
    CASE section = "Movies" -> 1
      [] section = "TV Shows" -> 2
      [] section = "Music" -> 3
      [] section = "Photos" -> 4

\* the sections the command line asks for
Asked ==
    {n \in {"Movies", "TV Shows", "Music", "Photos"} :
        \/ n = "Movies" /\ opts.with_movies
        \/ n = "TV Shows" /\ opts.with_shows
        \/ n = "Music" /\ opts.with_music
        \/ n = "Photos" /\ opts.with_photos}

\* the calls of library.add made for the first section
IsFirst(i) == first_section # None /\ calls[i].section = first_section[2]

\* the statements of the retry loop of the first section, lines 292-298
FirstLines == {"first_wait", "add_first", "retry_sleep"}

\* C24: the creation of the first section is tried again only after the
\* answer BadRequest 'the server is still starting up. Please retry later'
\* and while the timeout has not elapsed; another BadRequest ends the tool at
\* once; without success the tool exits with status 1 when the timeout has
\* elapsed; the other sections are added after the first succeeded, each
\* once, in the order movies, shows, music, photos, and all of them before
\* 'Sections created' is printed
C24_FirstSectionRetried ==
    /\ [](\A i \in 1..Len(calls) :
            /\ (i < Len(calls) /\ IsFirst(i) /\ IsFirst(i + 1))
                  => calls[i].outcome = "starting"
            /\ (calls[i].outcome = "other" \/ (~IsFirst(i) /\ calls[i].outcome # "ok"))
                  => i = Len(calls) /\ at = "exited" /\ exit_status = Raised("BadRequest")
            /\ ~IsFirst(i)
                  => /\ success
                     /\ \E j \in 1..(i - 1) : IsFirst(j) /\ calls[j].outcome = "ok"
                     /\ \A j \in 1..Len(calls) : calls[j].section = calls[i].section => j = i
            /\ \A j \in 1..Len(calls) :
                  (i < j /\ calls[i].section # calls[j].section)
                      => Position(calls[i].section) < Position(calls[j].section))
    /\ []((notifier /\ ~success /\ at \notin FirstLines \cup {"first_check"})
            => /\ at = "exited"
               /\ \/ exit_status = Raised("BadRequest")
                  \/ /\ exit_status = Exit(1)
                     /\ ~(now - start_time < opts.bootstrap_timeout))
    /\ [](("Sections created, almost done!" \in printed)
            => /\ Range(Added(calls)) = Asked
               /\ \A n \in Asked :
                     Cardinality({i \in 1..Len(calls) :
                                     calls[i].section = n /\ calls[i].outcome = "ok"}) = 1)
    /\ [][at' = "add_first" /\ at # "add_first"
            => ~success /\ now - start_time < opts.bootstrap_timeout]_vars

\* the first section was created at the second try, after the answer of a
\* server that was starting up, and the three others after it
C24_Witness ==
    /\ "Sections created, almost done!" \in printed
    /\ Len(calls) = 5
    /\ calls[1] = Call("Movies", "starting")
    /\ calls[2] = Call("Movies", "ok")
    /\ Added(calls) = <<"Movies", "TV Shows", "Music", "Photos">>

\* C25: once the listener runs, whatever the messages carried: when the
\* processed library entries are expected_media_count or more then finished
\* is True, and finished is True only when expected_media_count of the files
\* that were counted into it have been processed
C25_FinishedWhenProcessed ==
    notifier
        => /\ processed_media >= expected_media_count => finished
           /\ finished => announced.counted >= expected_media_count

\* every counted file was processed, one of them in a message that told of a
\* photo too, and finished is not True
C25_Witness ==
    /\ notifier
    /\ expected_media_count > 0
    /\ announced.counted = expected_media_count
    /\ announced.photos > 0
    /\ processed_media > expected_media_count
    /\ ~finished

\* C26: when a section was created, 'Server is ready to use!' is printed
\* only with the metadata scan finished, that is with finished True and
\* every expected media file processed; and a tool that ended after
\* 'Sections created' with the scan not finished has printed 'Metadata scan
\* takes too long' and exited with status 1
C26_ReadyAfterScan ==
    /\ (notifier /\ "Server is ready to use!" \in printed)
          => finished /\ announced.counted >= expected_media_count
    /\ (at = "exited" /\ "Sections created, almost done!" \in printed /\ ~finished)
          => "Metadata scan takes too long" \in printed /\ exit_status = Exit(1)

\* the tool created the photo album and printed 'Server is ready to use!'
\* while the scan had not finished and no counted file was processed
C26_Witness ==
    /\ notifier
    /\ "Server is ready to use!" \in printed
    /\ exit_status = Exit(0)
    /\ album_created
    /\ ~finished
    /\ expected_media_count > 0
    /\ processed_media = 0

\* C27: wait_until evaluates the condition at least once, whatever the
\* timeout; it evaluates it no more after the first truthy value; what it
\* returns is truthy and is the value of the last evaluation; and it raises
\* AssertionError when the last evaluation, after which the timeout had
\* elapsed, gave a falsy value, and then only
C27_WaitUntil ==
    /\ at \in {"wait_test", "wait_again", "wait_assert", "wait_done"}
          => /\ Len(wait.evals) >= 1
             /\ wait.retries = Len(wait.evals)
             /\ \A i \in 1..(Len(wait.evals) - 1) : ~Truthy(wait.evals[i])
    /\ at = "wait_done"
          => IF Truthy(wait.evals[Len(wait.evals)])
             THEN wait.ret = wait.evals[Len(wait.evals)]
             ELSE /\ wait.ret = Raise("AssertionError", "Wait timeout", 0)
                  /\ now - wait.start >= wait.timeout

\* a call with timeout 0 evaluated the condition once, got a falsy value and
\* raised
C27_Witness ==
    /\ at = "wait_done"
    /\ wait.timeout = 0
    /\ Len(wait.evals) = 1
    /\ ~Truthy(wait.evals[1])
    /\ IsRaise(wait.ret)

====
